---------------------------- MODULE Spec2Model ----------------------------
(***************************************************************************)
(* Model of the Dataverse retrieval core of the RAG agent                  *)
(* (samples/rag-ai-agent-dataverse/agent/dataverse_client.py): query       *)
(* intent extraction, aggregate field selection, generic summarisation     *)
(* and the per-table retrieval loop.                                       *)
(*                                                                         *)
(* A text is a sequence of tokens.  A token is a word (a maximal run of    *)
(* [A-Za-z0-9_], so a regex \b holds exactly at its two ends), one         *)
(* whitespace character " ", or one punctuation character ",".  Words are  *)
(* atomic strings whose spelling is given by Chars, so that lower-casing,  *)
(* digit classes, lengths and substring tests are computed on characters.  *)
(***************************************************************************)
EXTENDS Integers, Sequences, FiniteSets, TLC

VARIABLES
    query,      \* the text handed to the operation, a token sequence
    attrs,      \* numeric attribute names returned by the metadata service
    records,    \* the rows handed to the summarizer
    table_name, \* the table the rows came from
    step,       \* the operation that produced out ("input" before any)
    out,        \* the value the operation returned
    config,     \* ENABLE_DATAVERSE, DATAVERSE_ENVIRONMENT_URL, ENABLE_SALES_ADVANCED
    _credential,             \* module global
    _dataverse_token,        \* module global
    _entity_set_name_cache,  \* module global: lower-cased table name -> entity set
    pc,             \* position of search_dataverse_tables
    calls,          \* calls of search_dataverse_tables made so far
    max_results,    \* its argument
    table_names,    \* the tables it loops over
    explicit_table, \* its local
    search_term,    \* its local
    idx,            \* index in table_names of the table being searched
    context_parts,  \* its local: the parts, each the sequence of its lines
    hist,           \* per finished table: raised, and its parts' positions
    requests,       \* the requests sent during the call, in order
    result          \* the text it returned, as the sequence of its lines

purevars == <<attrs, records, table_name, step, out>>

procvars == <<config, _credential, _dataverse_token, _entity_set_name_cache>>

callvars ==
    <<pc, calls, max_results, table_names, explicit_table, search_term, idx,
      context_parts, hist, requests, result>>

vars == <<query, purevars, procvars, callvars>>

None == "None"

-----------------------------------------------------------------------------
(* Spelling.                                                               *)

Chars(w) ==
    CASE w = "table" -> <<"t","a","b","l","e">>
      [] w = "Table" -> <<"T","a","b","l","e">>
      [] w = "named" -> <<"n","a","m","e","d">>
      [] w = "from" -> <<"f","r","o","m">>
      [] w = "From" -> <<"F","r","o","m">>
      [] w = "in" -> <<"i","n">>
      [] w = "the" -> <<"t","h","e">>
      [] w = "The" -> <<"T","h","e">>
      [] w = "a" -> <<"a">>
      [] w = "an" -> <<"a","n">>
      [] w = "this" -> <<"t","h","i","s">>
      [] w = "that" -> <<"t","h","a","t">>
      [] w = "my" -> <<"m","y">>
      [] w = "My" -> <<"M","y">>
      [] w = "sales" -> <<"s","a","l","e","s">>
      [] w = "account" -> <<"a","c","c","o","u","n","t">>
      [] w = "contacts" -> <<"c","o","n","t","a","c","t","s">>
      [] w = "acme" -> <<"a","c","m","e">>
      [] w = "ab" -> <<"a","b">>
      [] w = "show" -> <<"s","h","o","w">>
      [] w = "Show" -> <<"S","h","o","w">>
      [] w = "list" -> <<"l","i","s","t">>
      [] w = "List" -> <<"L","i","s","t">>
      [] w = "records" -> <<"r","e","c","o","r","d","s">>
      [] w = "entries" -> <<"e","n","t","r","i","e","s">>
      [] w = "items" -> <<"i","t","e","m","s">>
      [] w = "get" -> <<"g","e","t">>
      [] w = "find" -> <<"f","i","n","d">>
      [] w = "display" -> <<"d","i","s","p","l","a","y">>
      [] w = "top" -> <<"t","o","p">>
      [] w = "all" -> <<"a","l","l">>
      [] w = "2024" -> <<"2","0","2","4">>
      [] w = "2023" -> <<"2","0","2","3">>
      [] w = "1999" -> <<"1","9","9","9">>
      [] w = "20245" -> <<"2","0","2","4","5">>
      [] w = "x2024" -> <<"x","2","0","2","4">>
      [] w = "20x4" -> <<"2","0","x","4">>
      [] w = "count" -> <<"c","o","u","n","t">>
      [] w = "Count" -> <<"C","o","u","n","t">>
      [] w = "how" -> <<"h","o","w">>
      [] w = "many" -> <<"m","a","n","y">>
      [] w = "total" -> <<"t","o","t","a","l">>
      [] w = "sum" -> <<"s","u","m">>
      [] w = "avg" -> <<"a","v","g">>
      [] w = "average" -> <<"a","v","e","r","a","g","e">>
      [] w = "mean" -> <<"m","e","a","n">>
      [] w = "max" -> <<"m","a","x">>
      [] w = "maximum" -> <<"m","a","x","i","m","u","m">>
      [] w = "maxmum" -> <<"m","a","x","m","u","m">>
      [] w = "highest" -> <<"h","i","g","h","e","s","t">>
      [] w = "min" -> <<"m","i","n">>
      [] w = "minimum" -> <<"m","i","n","i","m","u","m">>
      [] w = "minmum" -> <<"m","i","n","m","u","m">>
      [] w = "lowest" -> <<"l","o","w","e","s","t">>
      [] w = "totals" -> <<"t","o","t","a","l","s">>
      [] w = "amount" -> <<"a","m","o","u","n","t">>
      [] w = "price" -> <<"p","r","i","c","e">>
      [] w = "quantity" -> <<"q","u","a","n","t","i","t","y">>
      [] w = "revenue" -> <<"r","e","v","e","n","u","e">>
      [] w = "unit" -> <<"u","n","i","t">>
      [] w = "linetotal" -> <<"l","i","n","e","t","o","t","a","l">>
      [] w = "extendedamount" ->
             <<"e","x","t","e","n","d","e","d","a","m","o","u","n","t">>
      [] w = "cr5cd_taxamount" ->
             <<"c","r","5","c","d","_","t","a","x","a","m","o","u","n","t">>
      [] w = "cr5cd_unitprice" ->
             <<"c","r","5","c","d","_","u","n","i","t","p","r","i","c","e">>
      [] w = "Revenue" -> <<"R","e","v","e","n","u","e">>
      [] w = "numberofemployees" ->
             <<"n","u","m","b","e","r","o","f","e","m","p","l","o","y","e","e","s">>
      [] w = "versionnumber" ->
             <<"v","e","r","s","i","o","n","n","u","m","b","e","r">>
      [] w = "name" -> <<"n","a","m","e">>
      [] w = "contact" -> <<"c","o","n","t","a","c","t">>
      [] w = "cr5cd_sales" -> <<"c","r","5","c","d","_","s","a","l","e","s">>
      [] w = "task" -> <<"t","a","s","k">>
      [] w = "createdon" -> <<"c","r","e","a","t","e","d","o","n">>
      [] w = "taxamount" -> <<"t","a","x","a","m","o","u","n","t">>
      [] w = "owner" -> <<"o","w","n","e","r">>
      [] w = "city" -> <<"c","i","t","y">>
      [] w = "title" -> <<"t","i","t","l","e">>
      [] w = "2024-05-01T10:00:00Z" ->
             <<"2","0","2","4","-","0","5","-","0","1","T","1","0",":","0","0",
               ":","0","0","Z">>
      [] w = "2024-05-01" -> <<"2","0","2","4","-","0","5","-","0","1">>
      [] w = "Account" -> <<"A","c","c","o","u","n","t">>
      [] w = "accountleads" -> <<"a","c","c","o","u","n","t","l","e","a","d","s">>
      [] w = "2025" -> <<"2","0","2","5">>
      [] w = "2026" -> <<"2","0","2","6">>
      [] w = "12" -> <<"1","2">>
      [] w = "n/a" -> <<"n","/","a">>
      [] w = "other" -> <<"o","t","h","e","r">>
      [] w = "Contact" -> <<"C","o","n","t","a","c","t">>
      [] w = "CR5CD_SALES" -> <<"C","R","5","C","D","_","S","A","L","E","S">>
      [] w = "Sales" -> <<"S","a","l","e","s">>
      [] w = "Task" -> <<"T","a","s","k">>
      [] w = "" -> <<>>

\* str.lower() on one character
LowerChar(c) ==
    CASE c = "A" -> "a" [] c = "B" -> "b" [] c = "C" -> "c" [] c = "D" -> "d"
      [] c = "E" -> "e" [] c = "F" -> "f" [] c = "G" -> "g" [] c = "H" -> "h"
      [] c = "I" -> "i" [] c = "J" -> "j" [] c = "K" -> "k" [] c = "L" -> "l"
      [] c = "M" -> "m" [] c = "N" -> "n" [] c = "O" -> "o" [] c = "P" -> "p"
      [] c = "Q" -> "q" [] c = "R" -> "r" [] c = "S" -> "s" [] c = "T" -> "t"
      [] c = "U" -> "u" [] c = "V" -> "v" [] c = "W" -> "w" [] c = "X" -> "x"
      [] c = "Y" -> "y" [] c = "Z" -> "z"
      [] OTHER -> c

LowerSeq(cs) == [i \in 1..Len(cs) |-> LowerChar(cs[i])]

\* w.lower() == lit, for a lower-case literal lit
LowerIs(w, lit) == LowerSeq(Chars(w)) = Chars(lit)

\* w.lower() in lits
LowerIn(w, lits) == \E lit \in lits : LowerIs(w, lit)

Digits == {"0","1","2","3","4","5","6","7","8","9"}

\* sub in cs, for character sequences
IsSubstring(sub, cs) ==
    \E i \in 0..(Len(cs) - Len(sub)) :
        \A j \in 1..Len(sub) : cs[i + j] = sub[j]

-----------------------------------------------------------------------------
(* Tokens.                                                                 *)

SP == " "
PN == ","

IsWord(t) == t \notin {SP, PN}

\* the index of the first token at or after i that is not whitespace
\* (Len(txt) + 1 when there is none): the end of a greedy \s* at i
RECURSIVE SkipWS(_, _)
SkipWS(txt, i) ==
    IF i <= Len(txt) /\ txt[i] = SP THEN SkipWS(txt, i + 1) ELSE i

\* \s+ at i followed by a word: the word's index, or 0
WordAfterWS(txt, i) ==
    LET j == SkipWS(txt, i)
    IN  IF j > i /\ j <= Len(txt) /\ IsWord(txt[j]) THEN j ELSE 0


Min(S) == CHOOSE x \in S : \A y \in S : x <= y

-----------------------------------------------------------------------------
(* Query intent extraction.                                                *)

stopwords == {"the", "a", "an", "this", "that", "my"}

\* r"\btable\s+(?:named\s+)?([A-Za-z0-9_]+)\b", IGNORECASE
TableNamedPatAt(txt, i) ==
    IF ~(IsWord(txt[i]) /\ LowerIs(txt[i], "table")) THEN 0
    ELSE LET j == WordAfterWS(txt, i + 1)
         IN  IF j = 0 THEN 0
             ELSE IF LowerIs(txt[j], "named") /\ WordAfterWS(txt, j + 1) # 0
                  THEN WordAfterWS(txt, j + 1)
                  ELSE j

\* r"\bfrom\s+([A-Za-z0-9_]+)\b", IGNORECASE
FromPatAt(txt, i) ==
    IF IsWord(txt[i]) /\ LowerIs(txt[i], "from")
    THEN WordAfterWS(txt, i + 1)
    ELSE 0

\* r"\bin\s+table\s+([A-Za-z0-9_]+)\b", IGNORECASE
InTablePatAt(txt, i) ==
    IF ~(IsWord(txt[i]) /\ LowerIs(txt[i], "in")) THEN 0
    ELSE LET j == WordAfterWS(txt, i + 1)
         IN  IF j # 0 /\ LowerIs(txt[j], "table")
             THEN WordAfterWS(txt, j + 1)
             ELSE 0

\* the three table patterns by name: the index of the captured word of the
\* match of pattern p that starts at i, 0 when none starts there
PatAt(p, txt, i) ==
    CASE p = "table" -> TableNamedPatAt(txt, i)
      [] p = "from" -> FromPatAt(txt, i)
      [] p = "in table" -> InTablePatAt(txt, i)

\* the group captured by re.search(p, txt): re.search takes the leftmost
\* start
FirstCapture(txt, p) ==
    LET hits == {i \in 1..Len(txt) : PatAt(p, txt, i) # 0}
    IN  IF hits = {} THEN None ELSE txt[PatAt(p, txt, Min(hits))]

\* re.sub(p, " ", txt) from index i on: leftmost non-overlapping matches,
\* each replaced by one space (a match ends at its captured word)
RECURSIVE SubPat(_, _, _)
SubPat(txt, p, i) ==
    IF i > Len(txt) THEN <<>>
    ELSE IF PatAt(p, txt, i) # 0
         THEN <<SP>> \o SubPat(txt, p, PatAt(p, txt, i) + 1)
         ELSE <<txt[i]>> \o SubPat(txt, p, i + 1)

\* the stopword test without lower-casing the candidate
NotStopword_CaseSensitive(cand) == cand \notin stopwords

\* cand.lower() not in stopwords
NotStopword(cand) == ~LowerIn(cand, stopwords)

_extract_table_name_from_query(q) ==
    IF q = <<>> THEN None
    ELSE LET c1 == FirstCapture(q, "table")
             c2 == FirstCapture(q, "from")
             c3 == FirstCapture(q, "in table")
         IN  IF c1 # None /\ NotStopword(c1) THEN c1
             ELSE IF c2 # None /\ NotStopword(c2) THEN c2
             ELSE IF c3 # None /\ NotStopword(c3) THEN c3
             ELSE None

\* re.search(r"\b(20[0-9]{2})\b", txt) from index i on: the first word that
\* is spelled 2, 0, digit, digit
IsYearWord(t) ==
    /\ IsWord(t)
    /\ Len(Chars(t)) = 4
    /\ Chars(t)[1] = "2"
    /\ Chars(t)[2] = "0"
    /\ Chars(t)[3] \in Digits
    /\ Chars(t)[4] \in Digits

\* the last year word instead of the first
RECURSIVE SearchYear_Last(_, _)
SearchYear_Last(txt, i) ==
    IF i > Len(txt) THEN None
    ELSE IF SearchYear_Last(txt, i + 1) # None THEN SearchYear_Last(txt, i + 1)
    ELSE IF IsYearWord(txt[i]) THEN txt[i]
    ELSE None

RECURSIVE SearchYear(_, _)
SearchYear(txt, i) ==
    IF i > Len(txt) THEN None
    ELSE IF IsYearWord(txt[i]) THEN txt[i]
    ELSE SearchYear(txt, i + 1)

_extract_year_from_query(q) ==
    IF q = <<>> THEN None ELSE SearchYear(q, 1)

control_words ==
    {"show", "list", "records", "entries", "items", "get", "find", "display",
     "top", "all"}

\* re.sub(r"\b(show|...|all)\b", " ", txt, flags=re.IGNORECASE)
SubControlWords(txt) ==
    [i \in 1..Len(txt) |->
        IF IsWord(txt[i]) /\ LowerIn(txt[i], control_words) THEN SP ELSE txt[i]]

\* re.sub(r"\s+", " ", txt) from index i on
RECURSIVE CollapseWS(_, _)
CollapseWS(txt, i) ==
    IF i > Len(txt) THEN <<>>
    ELSE IF txt[i] = SP
         THEN <<SP>> \o CollapseWS(txt, SkipWS(txt, i))
         ELSE <<txt[i]>> \o CollapseWS(txt, i + 1)

\* str.strip() of a text whose whitespace runs are already single spaces
Strip(txt) ==
    LET a == IF txt # <<>> /\ Head(txt) = SP THEN 2 ELSE 1
        b == IF txt # <<>> /\ txt[Len(txt)] = SP THEN Len(txt) - 1 ELSE Len(txt)
    IN  SubSeq(txt, a, b)

\* len(txt) in characters
RECURSIVE TextLen(_)
TextLen(txt) ==
    IF txt = <<>> THEN 0
    ELSE (IF IsWord(Head(txt)) THEN Len(Chars(Head(txt))) ELSE 1)
         + TextLen(Tail(txt))

\* re.fullmatch(r"\d{4}", txt)
IsFourDigits(txt) ==
    /\ Len(txt) = 1
    /\ IsWord(txt[1])
    /\ Len(Chars(txt[1])) = 4
    /\ \A k \in 1..4 : Chars(txt[1])[k] \in Digits

\* the empty sequence is the empty string
_extract_search_term(q) ==
    IF q = <<>> THEN <<>>
    ELSE LET c1 == SubPat(q, "in table", 1)
             c2 == SubPat(c1, "table", 1)
             c3 == SubPat(c2, "from", 1)
             c4 == SubControlWords(c3)
             cleaned == Strip(CollapseWS(c4, 1))
         IN  IF TextLen(cleaned) >= 3 /\ ~IsFourDigits(cleaned)
             THEN cleaned
             ELSE <<>>

-----------------------------------------------------------------------------
(* Aggregate intent.                                                       *)

\* A metadata or data response: status 0 stands for requests.get raising,
\* any other status for a response with that code; value is the JSON
\* "value" array.
Response(status, value) == [status |-> status, value |-> value]

numeric_types == {"Integer", "BigInt", "Double", "Decimal", "Money"}

\* tok: _dataverse_token or get_dataverse_token() is truthy;
\* resp: the answer to the Attributes request for the table
_get_numeric_attributes(tok, resp) ==
    IF ~tok THEN <<>>
    ELSE IF resp.status # 200 THEN <<>>
    ELSE LET IsNumeric(a) == /\ a.AttributeType \in numeric_types
                             /\ a.LogicalName # ""
             kept == SelectSeq(resp.value, IsNumeric)
         IN  [i \in 1..Len(kept) |-> kept[i].LogicalName]

\* re.search(r"\b(" + "|".join(lits) + r")\b", q) for single words, on
\* q = query.lower()
HasWord(q, lits) ==
    \E i \in 1..Len(q) : IsWord(q[i]) /\ LowerIn(q[i], lits)

\* re.search(r"\bhow many\b", q): one space character between the words
HasHowMany(q) ==
    \E i \in 1..(Len(q) - 2) :
        /\ IsWord(q[i]) /\ LowerIs(q[i], "how")
        /\ q[i + 1] = SP
        /\ IsWord(q[i + 2]) /\ LowerIs(q[i + 2], "many")

\* the sum class tested before the count class
AggregateOp_SumFirst(q) ==
    IF HasWord(q, {"total", "sum"}) THEN "sum"
    ELSE IF HasWord(q, {"count"}) \/ HasHowMany(q) THEN "count"
    ELSE IF HasWord(q, {"avg", "average", "mean"}) THEN "avg"
    ELSE IF HasWord(q, {"max", "maximum", "maxmum", "highest", "top"}) THEN "max"
    ELSE IF HasWord(q, {"min", "minimum", "minmum", "lowest"}) THEN "min"
    ELSE None

AggregateOp(q) ==
    IF HasWord(q, {"count"}) \/ HasHowMany(q) THEN "count"
    ELSE IF HasWord(q, {"total", "sum"}) THEN "sum"
    ELSE IF HasWord(q, {"avg", "average", "mean"}) THEN "avg"
    ELSE IF HasWord(q, {"max", "maximum", "maxmum", "highest", "top"}) THEN "max"
    ELSE IF HasWord(q, {"min", "minimum", "minmum", "lowest"}) THEN "min"
    ELSE None

hints == <<"amount", "total", "price", "quantity", "revenue">>

\* any(h in na.lower() for h in hints)
HasHint(na, hs) ==
    \E k \in 1..Len(hs) : IsSubstring(Chars(hs[k]), LowerSeq(Chars(na)))

\* the first attribute with a hint, searched from index i on; None if none
RECURSIVE FirstHinted(_, _)
FirstHinted(numeric_attrs, i) ==
    IF i > Len(numeric_attrs) THEN None
    ELSE IF HasHint(numeric_attrs[i], hints) THEN numeric_attrs[i]
    ELSE FirstHinted(numeric_attrs, i + 1)

\* for each hint in turn, the first attribute that contains it
RECURSIVE FirstByHintOrder(_, _)
FirstByHintOrder(numeric_attrs, k) ==
    IF k > Len(hints) THEN None
    ELSE IF \E i \in 1..Len(numeric_attrs) : HasHint(numeric_attrs[i], <<hints[k]>>)
         THEN numeric_attrs[Min({i \in 1..Len(numeric_attrs) :
                                    HasHint(numeric_attrs[i], <<hints[k]>>)})]
         ELSE FirstByHintOrder(numeric_attrs, k + 1)

\* the hints tried in their own order, each against the whole list
ChooseField_HintOrder(numeric_attrs) ==
    IF FirstByHintOrder(numeric_attrs, 1) # None
    THEN FirstByHintOrder(numeric_attrs, 1)
    ELSE numeric_attrs[1]

\* the choice among a non-empty list of numeric attributes
ChooseField(numeric_attrs) ==
    IF FirstHinted(numeric_attrs, 1) # None
    THEN FirstHinted(numeric_attrs, 1)
    ELSE numeric_attrs[1]

\* the None that _parse_aggregate_intent returns for no intent
NoIntent == <<>>

\* an intent with an empty field for every operation, not only count
_parse_aggregate_intent_AnyOpWithoutField(q, tok, resp) ==
    IF q = <<>> \/ AggregateOp(q) = None THEN NoIntent
    ELSE IF _get_numeric_attributes(tok, resp) = <<>>
         THEN <<AggregateOp(q), "", _extract_year_from_query(q)>>
         ELSE <<AggregateOp(q), ChooseField(_get_numeric_attributes(tok, resp)),
                _extract_year_from_query(q)>>

\* NoIntent, or <<op, field, year>>
_parse_aggregate_intent(q, tok, resp) ==
    IF q = <<>> THEN NoIntent
    ELSE LET op == AggregateOp(q)
             year == _extract_year_from_query(q)
             numeric_attrs == _get_numeric_attributes(tok, resp)
         IN  IF op = None THEN NoIntent
             ELSE IF numeric_attrs = <<>>
                  THEN IF op = "count" THEN <<op, "", year>> ELSE NoIntent
                  ELSE <<op, ChooseField(numeric_attrs), year>>

-----------------------------------------------------------------------------
(* Generic summarisation.                                                  *)
(* A row is a sequence of [k, v] pairs with distinct keys, in the order of *)
(* the JSON object.  A value is a string, a number or null.                *)

Str(x) == [kind |-> "str", s |-> x, n |-> 0]
Num(x) == [kind |-> "num", s |-> "", n |-> x]
Null == [kind |-> "null", s |-> "", n |-> 0]

Field(k, v) == [k |-> k, v |-> v]

\* k in rec
HasKey(rec, k) == \E i \in 1..Len(rec) : rec[i].k = k

\* rec.get(k)
Get(rec, k) ==
    IF HasKey(rec, k)
    THEN rec[CHOOSE i \in 1..Len(rec) : rec[i].k = k].v
    ELSE Null

\* bool(v)
Truthy(v) == (v.kind = "str" /\ v.s # "") \/ (v.kind = "num" /\ v.n # 0)

\* str(v)
StrOf(v) ==
    CASE v.kind = "str" -> v.s
      [] v.kind = "num" -> ToString(v.n)
      [] v.kind = "null" -> "None"

\* the strings that are the first 10 characters of a longer value
DatePortions == {"2024-05-01"}

\* s[:10]
Take10(s) ==
    IF Len(s) <= 10 THEN s
    ELSE CHOOSE d \in DatePortions : Chars(d) = SubSeq(Chars(s), 1, 10)

key_fields == <<"name", "fullname", "subject", "title", "cr5cd_itemname", "description">>
date_fields == <<"cr5cd_orderdate", "createdon", "modifiedon", "overriddencreatedon">>
numeric_hints ==
    <<"amount", "total", "price", "revenue", "quantity", "unit", "linetotal",
      "extendedamount">>

\* " - ".join(parts) of the first two strings of 1 to 60 characters
_first_stringy(rec) ==
    LET short(f) == f.v.kind = "str" /\ 1 <= Len(f.v.s) /\ Len(f.v.s) <= 60
        parts == SelectSeq(rec, short)
    IN  IF parts = <<>> THEN "Record"
        ELSE IF Len(parts) = 1 THEN parts[1].v.s
        ELSE parts[1].v.s \o " - " \o parts[2].v.s

\* the display value taken from the first key field the row has, empty or not
Display_AnyPresent(rec) ==
    LET present == { i \in 1..Len(key_fields) : HasKey(rec, key_fields[i]) }
    IN  IF present # {}
        THEN StrOf(Get(rec, key_fields[Min(present)]))
        ELSE _first_stringy(rec)

\* the display value of a row
Display(rec) ==
    LET present == { i \in 1..Len(key_fields) :
                       HasKey(rec, key_fields[i]) /\ Truthy(Get(rec, key_fields[i])) }
    IN  IF present # {}
        THEN StrOf(Get(rec, key_fields[Min(present)]))
        ELSE _first_stringy(rec)

\* the date part of a row, None if it has no date
DateVal(rec) ==
    LET present == { i \in 1..Len(date_fields) : Truthy(Get(rec, date_fields[i])) }
    IN  IF present = {} THEN None
        ELSE Take10(StrOf(Get(rec, date_fields[Min(present)])))

\* numeric_totals[field] = numeric_totals.get(field, 0.0) + float(val):
\* totals is a sequence of [k, v] in insertion order
AddTotal(totals, field, val) ==
    IF \E i \in 1..Len(totals) : totals[i].k = field
    THEN [i \in 1..Len(totals) |->
             IF totals[i].k = field THEN Field(field, totals[i].v + val)
             ELSE totals[i]]
    ELSE Append(totals, Field(field, val))

\* the tally of one row, from its item j on
RECURSIVE TallyRow(_, _, _)
TallyRow(totals, rec, j) ==
    IF j > Len(rec) THEN totals
    ELSE IF rec[j].v.kind = "num" /\ HasHint(rec[j].k, numeric_hints)
         THEN TallyRow(AddTotal(totals, rec[j].k, rec[j].v.n), rec, j + 1)
         ELSE TallyRow(totals, rec, j + 1)

\* the tally of the rows recs, from row i on
RECURSIVE TallyRows(_, _, _)
TallyRows(totals, recs, i) ==
    IF i > Len(recs) THEN totals
    ELSE TallyRows(TallyRow(totals, recs[i], 1), recs, i + 1)

\* records[:n]
FirstN(recs, n) == SubSeq(recs, 1, IF Len(recs) < n THEN Len(recs) ELSE n)

\* numeric_totals after the loop "for i, rec in enumerate(records[:5], 1)"
NumericTotals(recs) == TallyRows(<<>>, FirstN(recs, 5), 1)

\* three digits, zero padded
Pad3(n) ==
    IF n < 10 THEN "00" \o ToString(n)
    ELSE IF n < 100 THEN "0" \o ToString(n)
    ELSE ToString(n)

\* f"{n:,}" for a natural number
RECURSIVE Commas(_)
Commas(n) ==
    IF n < 1000 THEN ToString(n)
    ELSE Commas(n \div 1000) \o "," \o Pad3(n % 1000)

\* f"{v:,.2f}" for a whole number v
FormatMoney(v) == Commas(v) \o ".00"

\* ", ".join(agg_parts) from entry k on
RECURSIVE JoinTotals(_, _)
JoinTotals(shown, k) ==
    IF k > Len(shown) THEN ""
    ELSE (IF k > 1 THEN ", " ELSE "")
         \o shown[k].k \o ": " \o FormatMoney(shown[k].v)
         \o JoinTotals(shown, k + 1)

\* list(numeric_totals.items())[:2]
HeaderTotals(recs) == FirstN(NumericTotals(recs), 2)

\* the header line (its arrow is written "->")
Header(t, recs) ==
    "[" \o t \o "] " \o ToString(Len(recs)) \o " record(s)"
    \o (IF NumericTotals(recs) # <<>>
        THEN " | totals -> " \o JoinTotals(HeaderTotals(recs), 1)
        ELSE "")

\* the line of one listed row
RowLine(rec) ==
    IF DateVal(rec) # None
    THEN "  - " \o Display(rec) \o " (" \o DateVal(rec) \o ")"
    ELSE "  - " \o Display(rec)

\* the header and row lines also for no rows at all
_summarize_generic_records_NoEmptyCheck(t, recs) ==
    <<Header(t, recs)>>
    \o [i \in 1..Len(FirstN(recs, 5)) |-> RowLine(recs[i])]

\* the returned text as the sequence of its lines
_summarize_generic_records(t, recs) ==
    IF recs = <<>> THEN <<"[" \o t \o "] No records found.">>
    ELSE <<Header(t, recs)>>
         \o [i \in 1..Len(FirstN(recs, 5)) |-> RowLine(recs[i])]

-----------------------------------------------------------------------------
(* Entity-set resolution and the aggregate request.                        *)
(* An operation that sends requests or writes the cache returns a record:  *)
(* ret, the value returned; cache, _entity_set_name_cache afterwards;      *)
(* reqs, the requests it sent, in order.                                   *)

Request(kind, table, endpoint, filter) ==
    [kind |-> kind, table |-> table, endpoint |-> endpoint, filter |-> filter]

\* the table names whose lower-case form is used as a cache key
TableKeys == {"account", "contact", "cr5cd_sales", "sales", "task"}

\* table_name.lower()
LowerName(t) ==
    CHOOSE k \in TableKeys : Chars(k) = LowerSeq(Chars(t))

\* an element of the EntityDefinitions answers
Entity(set, logical) == [EntitySetName |-> set, LogicalName |-> logical]

\* the first entity of a contains-search answer that has an entity set and
\* whose logical name is or contains key; 0 when none
FirstMatchingEntity(value, key) ==
    LET ok == { i \in 1..Len(value) :
                  /\ value[i].EntitySetName # ""
                  /\ IsSubstring(Chars(key), LowerSeq(Chars(value[i].LogicalName))) }
    IN  IF ok = {} THEN 0 ELSE Min(ok)

\* the contains search is tried before the exact lookup
_get_entity_set_name_SearchFirst(cache, tok, t, exact, search) ==
    IF t = "" THEN [ret |-> None, cache |-> cache, reqs |-> <<>>]
    ELSE LET key == LowerName(t)
             r1 == Request("entity_exact", t, "EntityDefinitions", "")
             r2 == Request("entity_search", t, "EntityDefinitions", "")
             hit == FirstMatchingEntity(search.value, key)
         IN  IF cache[key] # None
             THEN [ret |-> cache[key], cache |-> cache, reqs |-> <<>>]
             ELSE IF ~tok
             THEN [ret |-> None, cache |-> cache, reqs |-> <<>>]
             ELSE IF search.status = 200 /\ hit # 0
             THEN [ret |-> search.value[hit].EntitySetName,
                   cache |-> [cache EXCEPT
                                 ![key] = search.value[hit].EntitySetName],
                   reqs |-> <<r2>>]
             ELSE IF exact.status = 200 /\ exact.value.EntitySetName # ""
             THEN [ret |-> exact.value.EntitySetName,
                   cache |-> [cache EXCEPT ![key] = exact.value.EntitySetName],
                   reqs |-> <<r2, r1>>]
             ELSE [ret |-> None, cache |-> cache, reqs |-> <<r2, r1>>]

\* without the test "if key in _entity_set_name_cache"
_get_entity_set_name_NoCacheLookup(cache, tok, t, exact, search) ==
    IF t = "" THEN [ret |-> None, cache |-> cache, reqs |-> <<>>]
    ELSE LET key == LowerName(t)
             r1 == Request("entity_exact", t, "EntityDefinitions", "")
             r2 == Request("entity_search", t, "EntityDefinitions", "")
             hit == FirstMatchingEntity(search.value, key)
         IN  IF ~tok
             THEN [ret |-> None, cache |-> cache, reqs |-> <<>>]
             ELSE IF exact.status = 200 /\ exact.value.EntitySetName # ""
             THEN [ret |-> exact.value.EntitySetName,
                   cache |-> [cache EXCEPT ![key] = exact.value.EntitySetName],
                   reqs |-> <<r1>>]
             ELSE IF search.status = 200 /\ hit # 0
             THEN [ret |-> search.value[hit].EntitySetName,
                   cache |-> [cache EXCEPT
                                 ![key] = search.value[hit].EntitySetName],
                   reqs |-> <<r1, r2>>]
             ELSE [ret |-> None, cache |-> cache, reqs |-> <<r1, r2>>]

\* cache maps every key to its entity set, None for a key not in the
\* dictionary.  tok: a token is at hand; exact, search: the answers of the
\* metadata service to the exact lookup and to the contains search
_get_entity_set_name(cache, tok, t, exact, search) ==
    IF t = "" THEN [ret |-> None, cache |-> cache, reqs |-> <<>>]
    ELSE LET key == LowerName(t)
             r1 == Request("entity_exact", t, "EntityDefinitions", "")
             r2 == Request("entity_search", t, "EntityDefinitions", "")
             hit == FirstMatchingEntity(search.value, key)
         IN  IF cache[key] # None
             THEN [ret |-> cache[key], cache |-> cache, reqs |-> <<>>]
             ELSE IF ~tok
             THEN [ret |-> None, cache |-> cache, reqs |-> <<>>]
             ELSE IF exact.status = 200 /\ exact.value.EntitySetName # ""
             THEN [ret |-> exact.value.EntitySetName,
                   cache |-> [cache EXCEPT ![key] = exact.value.EntitySetName],
                   reqs |-> <<r1>>]
             ELSE IF search.status = 200 /\ hit # 0
             THEN [ret |-> search.value[hit].EntitySetName,
                   cache |-> [cache EXCEPT
                                 ![key] = search.value[hit].EntitySetName],
                   reqs |-> <<r1, r2>>]
             ELSE [ret |-> None, cache |-> cache, reqs |-> <<r1, r2>>]

\* table_name.endswith('s')
EndsWithS(t) == Chars(t) # <<>> /\ Chars(t)[Len(Chars(t))] = "s"

_heuristic_entity_set_name(t) ==
    IF t = "cr5cd_sales" THEN "cr5cd_saleses"
    ELSE IF EndsWithS(t) THEN t \o "es"
    ELSE t \o "s"

date_types == {"DateTime"}

_get_date_attributes(tok, resp) ==
    IF ~tok THEN <<>>
    ELSE IF resp.status # 200 THEN <<>>
    ELSE LET IsDate(a) == /\ a.AttributeType \in date_types
                          /\ a.LogicalName # ""
             kept == SelectSeq(resp.value, IsDate)
         IN  [i \in 1..Len(kept) |-> kept[i].LogicalName]

preferred ==
    <<"cr5cd_orderdate", "orderdate", "actualclosedate", "estimatedclosedate",
      "createdon">>

\* createdon is taken whenever the table has it
_choose_date_field_CreatedonFirst(date_attrs) ==
    LET available == { date_attrs[i] : i \in 1..Len(date_attrs) }
        hits == { i \in 1..Len(preferred) : preferred[i] \in available }
    IN  IF "createdon" \in available THEN "createdon"
        ELSE IF hits # {} THEN preferred[Min(hits)]
        ELSE None

\* the date field of a table whose date attributes are date_attrs
_choose_date_field(date_attrs) ==
    LET available == { date_attrs[i] : i \in 1..Len(date_attrs) }
        hits == { i \in 1..Len(preferred) : preferred[i] \in available }
    IN  IF hits # {} THEN preferred[Min(hits)]
        ELSE IF "createdon" \in available THEN "createdon"
        ELSE None

\* op.upper()
Upper(op) ==
    CASE op = "sum" -> "SUM" [] op = "avg" -> "AVG" [] op = "max" -> "MAX"
      [] op = "min" -> "MIN" [] op = "count" -> "COUNT"

\* the first row of an aggregate answer
AggRow(res, cnt) == [Result |-> res, Count |-> cnt]

\* the string is a decimal numeral
IsNumeral(str) ==
    /\ Chars(str) # <<>>
    /\ \A i \in 1..Len(Chars(str)) : Chars(str)[i] \in Digits

DigitVal(c) == CHOOSE d \in 0..9 : ToString(d) = c

\* the number written by the first n digits of cs
RECURSIVE ParseNat(_, _)
ParseNat(cs, n) ==
    IF n = 0 THEN 0 ELSE 10 * ParseNat(cs, n - 1) + DigitVal(cs[n])

\* float(v) and int(v) return rather than raise
CanNumber(v) == v.kind = "num" \/ (v.kind = "str" /\ IsNumeral(v.s))

\* float(v), int(v)
NumberOf(v) ==
    IF v.kind = "num" THEN v.n ELSE ParseNat(Chars(v.s), Len(Chars(v.s)))

\* v or 0
OrZero(v) == IF Truthy(v) THEN v ELSE Num(0)

\* the text of the aggregate answer resp, None when the request failed,
\* the answer has no row, or converting its value raises
AggregateSummary(t, op, field, year, resp) ==
    LET scope == IF year # None THEN " in " \o year ELSE ""
    IN  IF resp.status # 200 THEN None
        ELSE IF resp.value = <<>> THEN None
        ELSE IF op = "count"
        THEN IF ~CanNumber(OrZero(resp.value[1].Count)) THEN None
             ELSE "[" \o t \o "] Count" \o scope \o ": "
                  \o ToString(NumberOf(OrZero(resp.value[1].Count)))
        ELSE IF ~CanNumber(resp.value[1].Result) THEN None
        ELSE "[" \o t \o "] " \o Upper(op) \o " of " \o field \o scope \o ": "
             \o FormatMoney(NumberOf(resp.value[1].Result))

\* exact, search, dates, agg: the answers to the requests it may send
_dataverse_aggregate(cache, tok, t, op, field, year, exact, search, dates, agg) ==
    IF ~tok THEN [ret |-> None, cache |-> cache, reqs |-> <<>>]
    ELSE LET es == _get_entity_set_name(cache, tok, t, exact, search)
             entityset == IF es.ret # None THEN es.ret
                          ELSE _heuristic_entity_set_name(t)
             date_field == _choose_date_field(_get_date_attributes(tok, dates))
             filter_seg ==
                 IF year # None /\ date_field # None
                 THEN "filter(" \o date_field \o " ge " \o year \o "-01-01 and "
                      \o date_field \o " le " \o year \o "-12-31)/"
                 ELSE ""
         IN  [ret |-> AggregateSummary(t, op, field, year, agg),
              cache |-> es.cache,
              reqs |-> es.reqs
                       \o <<Request("attributes", t, "EntityDefinitions", "")>>
                       \o <<Request("aggregate", t, entityset, filter_seg)>>]

-----------------------------------------------------------------------------
(* The process after import of the module.                                 *)

Config(enable, url, advanced) ==
    [ENABLE_DATAVERSE |-> enable, DATAVERSE_ENVIRONMENT_URL |-> url,
     ENABLE_SALES_ADVANCED |-> advanced]

DefaultConfig == Config(TRUE, "https://org.crm.dynamics.com", TRUE)

\* a returned "" as the sequence of its lines
EmptyString == <<"">>

\* the globals as the module body leaves them, no call made yet
Imported(cfg) ==
    /\ config = cfg
    /\ _credential = None
    /\ _dataverse_token = None
    /\ _entity_set_name_cache = [k \in TableKeys |-> None]
    /\ pc = "idle"
    /\ calls = 0
    /\ max_results = 0
    /\ table_names = <<>>
    /\ explicit_table = None
    /\ search_term = <<>>
    /\ idx = 0
    /\ context_parts = <<>>
    /\ hist = <<>>
    /\ requests = <<>>
    /\ result = EmptyString

-----------------------------------------------------------------------------
(* Input texts: words separated by spaces or a comma.                      *)

RECURSIVE Flatten(_, _, _)
Flatten(ws, seps, i) ==
    IF i > Len(ws) THEN <<>>
    ELSE (IF i = 1 THEN <<>> ELSE seps[i - 1]) \o <<ws[i]>>
         \o Flatten(ws, seps, i + 1)

\* txt is a text of at most n words of vocab, separated by elements of sepset
IsTextOver(txt, vocab, sepset, n) ==
    \E k \in 0..n :
        \E ws \in [1..k -> vocab] :
            \E seps \in [1..(k - 1) -> sepset] :
                txt = Flatten(ws, seps, 1)

MaxTableWords == 4

TableVocab == {"in", "the", "table", "named", "from", "My", "sales", "account"}

InitTable ==
    /\ IsTextOver(query, TableVocab, {<<SP>>, <<PN>>}, MaxTableWords)
    /\ attrs = <<>>
    /\ records = <<>>
    /\ table_name = None
    /\ Imported(DefaultConfig)
    /\ step = "input"
    /\ out = None

ExtractTable ==
    /\ step = "input"
    /\ step' = "_extract_table_name_from_query"
    /\ out' = _extract_table_name_from_query(query)
    /\ UNCHANGED <<query, attrs, records, table_name, procvars, callvars>>

SpecTable == InitTable /\ [][ExtractTable]_vars

\* the identifiers of all the table phrases of q (every match of the three
\* patterns, at any position) that are not stopwords
PhraseIdents(q) ==
    { q[j] : j \in { j \in 1..Len(q) :
        /\ IsWord(q[j])
        /\ NotStopword(q[j])
        /\ \E i \in 1..Len(q) :
             \/ TableNamedPatAt(q, i) = j
             \/ FromPatAt(q, i) = j
             \/ InTablePatAt(q, i) = j } }

\* C2: a query with a phrase "table foo", "from foo" or "in table foo", foo
\* not a stopword, yields the identifier of such a phrase, also when a
\* stopword follows another table keyword; "in the table sales" never
\* yields "the"
C2_PhraseIdentReturned ==
    step = "_extract_table_name_from_query" =>
        /\ PhraseIdents(query) # {} => out \in PhraseIdents(query)
        /\ query = <<"in", SP, "the", SP, "table", SP, "sales">> => out = "sales"

\* C3: the explicit table is never a stopword in any letter case, and it is
\* None when no phrase has an identifier that is not a stopword
C3_NeverStopword ==
    step = "_extract_table_name_from_query" =>
        /\ out # None => ~LowerIn(out, stopwords)
        /\ PhraseIdents(query) = {} => out = None

\* C3 witness: a capitalised stopword was captured and rejected
C3_Witness ==
    /\ step = "_extract_table_name_from_query"
    /\ query = <<"from", SP, "My">>
    /\ out = None

-----------------------------------------------------------------------------
(* Year extraction on its own.                                             *)

MaxYearWords == 4

YearVocab == {"2024", "2023", "1999", "20245", "x2024", "20x4", "sales", "in"}

InitYear ==
    /\ IsTextOver(query, YearVocab, {<<SP>>, <<PN>>}, MaxYearWords)
    /\ attrs = <<>>
    /\ records = <<>>
    /\ table_name = None
    /\ Imported(DefaultConfig)
    /\ step = "input"
    /\ out = None

ExtractYear ==
    /\ step = "input"
    /\ step' = "_extract_year_from_query"
    /\ out' = _extract_year_from_query(query)
    /\ UNCHANGED <<query, attrs, records, table_name, procvars, callvars>>

SpecYear == InitYear /\ [][ExtractYear]_vars

\* the positions of the standalone tokens 20dd of q
YearTokenPositions(q) ==
    { i \in 1..Len(q) :
        /\ IsWord(q[i])
        /\ \E a \in Digits, b \in Digits : Chars(q[i]) = <<"2", "0", a, b>> }

\* C4: the year is the first standalone token 20dd in text order, and None
\* when the query has no such token
C4_FirstYearToken ==
    step = "_extract_year_from_query" =>
        IF YearTokenPositions(query) = {}
        THEN out = None
        ELSE out = query[Min(YearTokenPositions(query))]

\* C4 witness: two different years, after tokens that only look like one
C4_Witness ==
    /\ step = "_extract_year_from_query"
    /\ query = <<"20245", SP, "2023", PN, "2024">>
    /\ out = "2023"

-----------------------------------------------------------------------------
(* Search-term extraction on its own.                                      *)

MaxTermWords == 4

TermVocab ==
    {"show", "List", "records", "from", "table", "in", "account", "ab", "2024"}

InitTerm ==
    /\ IsTextOver(query, TermVocab, {<<SP>>, <<PN>>}, MaxTermWords)
    /\ attrs = <<>>
    /\ records = <<>>
    /\ table_name = None
    /\ Imported(DefaultConfig)
    /\ step = "input"
    /\ out = None

ExtractTerm ==
    /\ step = "input"
    /\ step' = "_extract_search_term"
    /\ out' = _extract_search_term(query)
    /\ UNCHANGED <<query, attrs, records, table_name, procvars, callvars>>

SpecTerm == InitTerm /\ [][ExtractTerm]_vars

\* q is made only of control words and one table phrase, separated by
\* whitespace
OnlyControlAndOnePhrase(q) ==
    \E i \in 1..Len(q) :
        \E e \in {TableNamedPatAt(q, i), FromPatAt(q, i), InTablePatAt(q, i)} :
            /\ e # 0
            /\ \A k \in (1..Len(q)) \ (i..e) :
                   \/ q[k] = SP
                   \/ IsWord(q[k]) /\ LowerIn(q[k], control_words)

\* the words of a text, in order
Words(txt) == SelectSeq(txt, IsWord)

\* a is b with some elements left out
RECURSIVE IsSubsequence(_, _)
IsSubsequence(a, b) ==
    IF a = <<>> THEN TRUE
    ELSE IF b = <<>> THEN FALSE
    ELSE IF Head(a) = Head(b) THEN IsSubsequence(Tail(a), Tail(b))
    ELSE IsSubsequence(a, Tail(b))

\* C5: the search term is made of words of the query in their order, holds
\* no control word (in any case) and no table phrase, has its whitespace
\* collapsed and trimmed, is empty or at least 3 characters long and not a
\* 4-digit number, and is empty for a query of control words and one table
\* phrase
C5_SearchTermCleaned ==
    step = "_extract_search_term" =>
        /\ \A i \in 1..Len(out) :
               IsWord(out[i]) => ~LowerIn(out[i], control_words)
        /\ \A i \in 1..Len(out) :
               /\ TableNamedPatAt(out, i) = 0
               /\ FromPatAt(out, i) = 0
               /\ InTablePatAt(out, i) = 0
        /\ IsSubsequence(Words(out), Words(query))
        /\ \A i \in 1..Len(out) :
               out[i] = SP => /\ 1 < i
                              /\ i < Len(out)
                              /\ out[i + 1] # SP
        /\ out = <<>> \/ (TextLen(out) >= 3 /\ ~IsFourDigits(out))
        /\ OnlyControlAndOnePhrase(query) => out = <<>>
        /\ query = <<"show", SP, "records", SP, "from", SP, "account">>
               => out = <<>>

-----------------------------------------------------------------------------
(* Aggregate intent on its own.                                            *)

Attr(name, type) == [LogicalName |-> name, AttributeType |-> type]

TaxAndPrice == <<Attr("cr5cd_taxamount", "Money"), Attr("cr5cd_unitprice", "Money")>>

ParseAggregateIntent ==
    /\ step = "input"
    /\ step' = "_parse_aggregate_intent"
    /\ out' = _parse_aggregate_intent(query, TRUE, attrs)
    /\ UNCHANGED <<query, attrs, records, table_name, procvars, callvars>>

MaxAggWords == 3

AggVocab ==
    {"Count", "how", "many", "total", "mean", "top", "maxmum", "minmum",
     "lowest", "2024", "sales", "contacts"}

InitAggOp ==
    /\ IsTextOver(query, AggVocab, {<<SP>>, <<SP, SP>>}, MaxAggWords)
    /\ attrs \in {Response(200, TaxAndPrice), Response(500, <<>>)}
    /\ records = <<>>
    /\ table_name = None
    /\ Imported(DefaultConfig)
    /\ step = "input"
    /\ out = None

SpecAggOp == InitAggOp /\ [][ParseAggregateIntent]_vars

MaxAttrs == 3

AttrUniverse ==
    {Attr("cr5cd_taxamount", "Money"), Attr("cr5cd_unitprice", "Money"),
     Attr("Revenue", "Decimal"), Attr("numberofemployees", "Integer"),
     Attr("name", "String"), Attr("", "Double")}

FieldQueries ==
    {<<"total">>, <<"Count">>, <<"lowest", SP, "2024">>, <<"sales">>}

InitAggField ==
    /\ query \in FieldQueries
    /\ \E k \in 0..MaxAttrs :
           \E value \in [1..k -> AttrUniverse] :
               \E status \in {200, 500, 0} :
                   attrs = Response(status, IF status = 200 THEN value ELSE <<>>)
    /\ records = <<>>
    /\ table_name = None
    /\ Imported(DefaultConfig)
    /\ step = "input"
    /\ out = None

SpecAggField == InitAggField /\ [][ParseAggregateIntent]_vars

\* the numeric attribute names the metadata service returned, in its order
NumericNames(resp) ==
    IF resp.status # 200 THEN <<>>
    ELSE LET typed(a) == /\ a.AttributeType \in
                               {"Integer", "BigInt", "Double", "Decimal", "Money"}
                         /\ a.LogicalName # ""
             kept == SelectSeq(resp.value, typed)
         IN  [i \in 1..Len(kept) |-> kept[i].LogicalName]

\* the first keyword class, in priority order, with a whole-word match in q
FirstClass(q, maxWords, minWords) ==
    IF HasWord(q, {"count"}) \/ HasHowMany(q) THEN "count"
    ELSE IF HasWord(q, {"total", "sum"}) THEN "sum"
    ELSE IF HasWord(q, {"avg", "average", "mean"}) THEN "avg"
    ELSE IF HasWord(q, maxWords) THEN "max"
    ELSE IF HasWord(q, minWords) THEN "min"
    ELSE None

\* the first standalone token 20dd of q, None if there is none
FirstYearToken(q) ==
    IF YearTokenPositions(q) = {} THEN None ELSE q[Min(YearTokenPositions(q))]

OpIsFirstClass(maxWords, minWords) ==
    step = "_parse_aggregate_intent" =>
        /\ FirstClass(query, maxWords, minWords) = None => out = NoIntent
        /\ out # NoIntent =>
               /\ out[1] = FirstClass(query, maxWords, minWords)
               /\ out[3] = FirstYearToken(query)
        /\ ( /\ FirstClass(query, maxWords, minWords) # None
             /\ NumericNames(attrs) # <<>> ) => out # NoIntent
        /\ ( /\ query = <<"total", SP, "sales", SP, "2024">>
             /\ NumericNames(attrs) # <<>> )
               => (out[1] = "sum" /\ out[3] = "2024")
        /\ query = <<"how", SP, "many", SP, "contacts">>
               => (out # NoIntent /\ out[1] = "count")

C7_FieldByAttributeOrder ==
    (step = "_parse_aggregate_intent" /\ out # NoIntent /\ NumericNames(attrs) # <<>>) =>
        LET N == NumericNames(attrs)
            hinted == { i \in 1..Len(N) :
                          \E h \in {"amount", "total", "price", "quantity", "revenue"} :
                              IsSubstring(Chars(h), LowerSeq(Chars(N[i]))) }
        IN  /\ out[2] = IF hinted = {} THEN N[1] ELSE N[Min(hinted)]
            /\ N = <<"cr5cd_taxamount", "cr5cd_unitprice">>
                   => out[2] = "cr5cd_taxamount"

\* C7 witness: a field with the later hint "price" precedes one with the
\* earlier hint "amount", after a field with no hint, and is chosen
C7_Witness ==
    /\ step = "_parse_aggregate_intent"
    /\ NumericNames(attrs) =
           <<"numberofemployees", "cr5cd_unitprice", "cr5cd_taxamount">>
    /\ out # NoIntent
    /\ out[2] = "cr5cd_unitprice"

\* C8: the field of an intent is one of the table's numeric fields, or is
\* empty for count over an empty numeric-field list; sum, avg, min and max
\* never carry an empty or non-numeric field
C8_FieldIsNumeric ==
    (step = "_parse_aggregate_intent" /\ out # NoIntent) =>
        LET N == { NumericNames(attrs)[i] : i \in 1..Len(NumericNames(attrs)) }
        IN  /\ \/ out[2] \in N
               \/ out[2] = "" /\ out[1] = "count" /\ N = {}
            /\ out[1] \in {"sum", "avg", "min", "max"} =>
                   (out[2] # "" /\ out[2] \in N)

\* C8 witness: count with metadata unavailable carries the empty field
C8_Witness ==
    /\ step = "_parse_aggregate_intent"
    /\ attrs.status = 500
    /\ out = <<"count", "", None>>

-----------------------------------------------------------------------------
(* Generic summarisation on its own.                                       *)

MaxRows == 6

Acme == <<Field("name", Str("Acme")), Field("revenue", Num(1000))>>
Globex == <<Field("name", Str("Globex")), Field("revenue", Num(2000))>>

RowUniverse ==
    {Acme, Globex,
     <<Field("title", Null), Field("createdon", Str("2024-05-01T10:00:00Z")),
       Field("cr5cd_unitprice", Num(1234567)), Field("quantity", Num(2)),
       Field("taxamount", Num(5))>>,
     <<Field("revenue", Null), Field("owner", Str("Kim")),
       Field("city", Str("Oslo")), Field("title", Str(""))>>,
     <<Field("name", Str("")), Field("revenue", Str("12"))>>}

InitSummary ==
    /\ \E k \in 0..MaxRows : records \in [1..k -> RowUniverse]
    /\ table_name \in {"account", "task"}
    /\ Imported(DefaultConfig)
    /\ query = <<>>
    /\ attrs = Response(0, <<>>)
    /\ step = "input"
    /\ out = None

SummarizeGenericRecords ==
    /\ step = "input"
    /\ step' = "_summarize_generic_records"
    /\ out' = _summarize_generic_records(table_name, records)
    /\ UNCHANGED <<query, attrs, records, table_name, procvars, callvars>>

SpecSummary == InitSummary /\ [][SummarizeGenericRecords]_vars

\* the sum of the numeric values of field f over the rows recs
RECURSIVE SumField(_, _)
SumField(recs, f) ==
    IF recs = <<>> THEN 0
    ELSE (IF Get(Head(recs), f).kind = "num" THEN Get(Head(recs), f).n ELSE 0)
         + SumField(Tail(recs), f)

\* C10: every total shown in the header is the sum of its field's numeric
\* values over all the rows given, not only the listed ones; Acme 1000 and
\* Globex 2000 give the revenue total 3,000.00
C10_TotalsOverAllRows ==
    (step = "_summarize_generic_records" /\ records # <<>>) =>
        /\ \A k \in 1..Len(HeaderTotals(records)) :
               HeaderTotals(records)[k].v
                   = SumField(records, HeaderTotals(records)[k].k)
        /\ out[1] = Header(table_name, records)
        /\ (records = <<Acme, Globex>> /\ table_name = "account") =>
               out[1] = "[account] 2 record(s) | totals -> revenue: 3,000.00"


-----------------------------------------------------------------------------
(* The plain listing of one table: its request and the digest of the       *)
(* answer.  An outcome is [parts, raised]: the parts appended to           *)
(* context_parts, and whether an exception then left the listing.          *)

\* the characters of a text
RECURSIVE QueryChars(_)
QueryChars(q) ==
    IF q = <<>> THEN <<>>
    ELSE (IF IsWord(Head(q)) THEN Chars(Head(q)) ELSE <<Head(q)>>)
         \o QueryChars(Tail(q))

\* the first y of years with "y in query", None if there is none
FirstYearIn(q, years) ==
    LET found == { i \in 1..Len(years) :
                     IsSubstring(Chars(years[i]), QueryChars(q)) }
    IN  IF found = {} THEN None ELSE years[Min(found)]

\* a text as a string
RECURSIVE Render(_)
Render(txt) == IF txt = <<>> THEN "" ELSE Head(txt) \o Render(Tail(txt))

Between(field, year) ==
    "Microsoft.Dynamics.CRM.Between(PropertyName='" \o field
    \o "',PropertyValues=['" \o year \o "-01-01','" \o year \o "-12-31'])"

ContainsTerm(field, term) == "contains(" \o field \o ",'" \o Render(term) \o "')"

\* 'sales' in table_name.lower()
IsSalesName(t) == IsSubstring(Chars("sales"), LowerSeq(Chars(t)))

\* the generic branch tests the search term before the year
ListFilter_TermFirst(t, advanced, q, term) ==
    IF t = "account"
    THEN IF term # <<>> THEN ContainsTerm("name", term) ELSE ""
    ELSE IF t = "contact"
    THEN IF term # <<>>
         THEN ContainsTerm("fullname", term) \o " or "
              \o ContainsTerm("emailaddress1", term)
         ELSE ""
    ELSE IF t = "cr5cd_sales" /\ advanced
    THEN IF FirstYearIn(q, <<"2024", "2023", "2025", "2026">>) # None
         THEN Between("cr5cd_orderdate",
                      FirstYearIn(q, <<"2024", "2023", "2025", "2026">>))
         ELSE ""
    ELSE IF IsSalesName(t)
    THEN IF FirstYearIn(q, <<"2024", "2023", "2025">>) # None
         THEN Between("createdon", FirstYearIn(q, <<"2024", "2023", "2025">>))
         ELSE ""
    ELSE IF term # <<>>
    THEN ContainsTerm("name", term) \o " or " \o ContainsTerm("subject", term)
         \o " or " \o ContainsTerm("title", term)
    ELSE IF _extract_year_from_query(q) # None
    THEN Between("createdon", _extract_year_from_query(q))
    ELSE ""

\* account and contact are filtered by year like any other table
ListFilter_KnownTablesByYear(t, advanced, q, term) ==
    IF t = "cr5cd_sales" /\ advanced
    THEN IF FirstYearIn(q, <<"2024", "2023", "2025", "2026">>) # None
         THEN Between("cr5cd_orderdate",
                      FirstYearIn(q, <<"2024", "2023", "2025", "2026">>))
         ELSE ""
    ELSE IF IsSalesName(t)
    THEN IF FirstYearIn(q, <<"2024", "2023", "2025">>) # None
         THEN Between("createdon", FirstYearIn(q, <<"2024", "2023", "2025">>))
         ELSE ""
    ELSE IF _extract_year_from_query(q) # None
    THEN Between("createdon", _extract_year_from_query(q))
    ELSE IF term # <<>>
    THEN IF t = "account" THEN ContainsTerm("name", term)
         ELSE IF t = "contact"
         THEN ContainsTerm("fullname", term) \o " or "
              \o ContainsTerm("emailaddress1", term)
         ELSE ContainsTerm("name", term) \o " or "
              \o ContainsTerm("subject", term)
              \o " or " \o ContainsTerm("title", term)
    ELSE ""

\* params["$filter"], "" when the request carries no filter
ListFilter(t, advanced, q, term) ==
    IF t = "account"
    THEN IF term # <<>> THEN ContainsTerm("name", term) ELSE ""
    ELSE IF t = "contact"
    THEN IF term # <<>>
         THEN ContainsTerm("fullname", term) \o " or "
              \o ContainsTerm("emailaddress1", term)
         ELSE ""
    ELSE IF t = "cr5cd_sales" /\ advanced
    THEN IF FirstYearIn(q, <<"2024", "2023", "2025", "2026">>) # None
         THEN Between("cr5cd_orderdate",
                      FirstYearIn(q, <<"2024", "2023", "2025", "2026">>))
         ELSE ""
    ELSE IF IsSalesName(t)
    THEN IF FirstYearIn(q, <<"2024", "2023", "2025">>) # None
         THEN Between("createdon", FirstYearIn(q, <<"2024", "2023", "2025">>))
         ELSE ""
    ELSE IF _extract_year_from_query(q) # None
    THEN Between("createdon", _extract_year_from_query(q))
    ELSE IF term # <<>>
    THEN ContainsTerm("name", term) \o " or " \o ContainsTerm("subject", term)
         \o " or " \o ContainsTerm("title", term)
    ELSE ""

\* str(record.get(k, default))
GetOr(rec, k, default) == IF HasKey(rec, k) THEN StrOf(Get(rec, k)) ELSE default

\* float(record.get(k, 0) or 0) and int(record.get(k, 0) or 0) return
AdvNumbersOk(rec) ==
    /\ CanNumber(OrZero(Get(rec, "cr5cd_unitprice")))
    /\ CanNumber(OrZero(Get(rec, "cr5cd_quantityordered")))
    /\ CanNumber(OrZero(Get(rec, "cr5cd_taxamount")))

UnitPrice(rec) == NumberOf(OrZero(Get(rec, "cr5cd_unitprice")))
Quantity(rec) == NumberOf(OrZero(Get(rec, "cr5cd_quantityordered")))
Tax(rec) == NumberOf(OrZero(Get(rec, "cr5cd_taxamount")))

\* total_revenue, total_tax, total_items after the loop over all rows
AdvTotals(recs) ==
    LET acc[i \in 0..Len(recs)] ==
            IF i = 0 THEN [revenue |-> 0, tax |-> 0, items |-> 0]
            ELSE [revenue |-> acc[i - 1].revenue
                                + UnitPrice(recs[i]) * Quantity(recs[i]),
                  tax |-> acc[i - 1].tax + Tax(recs[i]),
                  items |-> acc[i - 1].items + Quantity(recs[i])]
    IN  acc[Len(recs)]

\* record.get(k, '')[:10] raises: the value is truthy and not a string
DateSliceRaises(rec, k) == Truthy(Get(rec, k)) /\ Get(rec, k).kind # "str"

\* record.get(k, '')[:10] if record.get(k) else default
DateSlice(rec, k, default) ==
    IF Truthy(Get(rec, k)) THEN Take10(Get(rec, k).s) ELSE default

OrderLine(i, rec) ==
    "  " \o ToString(i) \o ". Order "
    \o GetOr(rec, "cr5cd_salesordernumber", "N/A") \o ": "
    \o GetOr(rec, "cr5cd_itemname", "Unknown") \o " x"
    \o ToString(Quantity(rec)) \o " = $"
    \o FormatMoney(UnitPrice(rec) * Quantity(rec))
    \o " (Date: " \o DateSlice(rec, "cr5cd_orderdate", "N/A") \o ")"

\* the cr5cd_sales digest with ENABLE_SALES_ADVANCED
SalesAdvancedOutcome(recs) ==
    IF \E i \in 1..Len(recs) : ~AdvNumbersOk(recs[i])
    THEN [parts |-> <<>>, raised |-> TRUE]
    ELSE LET tot == AdvTotals(recs)
             shown == FirstN(recs, 5)
             bad == { i \in 1..Len(shown) :
                        DateSliceRaises(shown[i], "cr5cd_orderdate") }
             upto == IF bad = {} THEN Len(shown) ELSE Min(bad) - 1
         IN  [parts |->
                 << <<"[Sales Summary] Total Revenue: $"
                      \o FormatMoney(tot.revenue) \o " + Tax: $"
                      \o FormatMoney(tot.tax) \o " = $"
                      \o FormatMoney(tot.revenue + tot.tax)>>,
                    <<"[Sales Summary] Total Items Sold: "
                      \o ToString(tot.items) \o " across "
                      \o ToString(Len(recs)) \o " orders">>,
                    <<"", "Sample Orders:">> >>
                 \o [i \in 1..upto |-> <<OrderLine(i, shown[i])>>],
              raised |-> bad # {}]

amount_fields ==
    <<"cr123_amount", "cr123_salesamount", "cr123_totalamount", "salesamount",
      "totalamount", "amount">>

\* the first of amount_fields that is a key of the first row, None if none
AmountField(recs) ==
    LET found == { i \in 1..Len(amount_fields) :
                     HasKey(recs[1], amount_fields[i]) }
    IN  IF found = {} THEN None ELSE amount_fields[Min(found)]

\* total_amount after the loop over all rows
SalesTotal(recs, af) ==
    LET acc[i \in 0..Len(recs)] ==
            IF i = 0 THEN 0
            ELSE acc[i - 1] + (IF Truthy(Get(recs[i], af))
                               THEN NumberOf(Get(recs[i], af)) ELSE 0)
    IN  acc[Len(recs)]

\* record.get(amount_field, 0)
AmountOf(rec, af) == IF HasKey(rec, af) THEN Get(rec, af) ELSE Num(0)

SaleLine(rec, af) ==
    "  - " \o GetOr(rec, "name", "Sale") \o ": $"
    \o FormatMoney(NumberOf(AmountOf(rec, af)))
    \o " on " \o DateSlice(rec, "createdon", "")

\* the digest of a table whose name contains "sales"
SalesOutcome(t, recs) ==
    LET af == AmountField(recs)
        shown == FirstN(recs, 3)
        bad == { i \in 1..Len(shown) :
                   \/ DateSliceRaises(shown[i], "createdon")
                   \/ ~CanNumber(AmountOf(shown[i], af)) }
        upto == IF bad = {} THEN Len(shown) ELSE Min(bad) - 1
    IN  IF af = None
        THEN [parts |-> [i \in 1..Len(recs) |->
                            <<"[" \o t \o "] "
                              \o GetOr(recs[i], "name", "Unnamed")>>],
              raised |-> FALSE]
        ELSE IF \E i \in 1..Len(recs) :
                   Truthy(Get(recs[i], af)) /\ ~CanNumber(Get(recs[i], af))
        THEN [parts |-> <<>>, raised |-> TRUE]
        ELSE [parts |->
                 << <<"[" \o t \o "] Total Sales: $"
                      \o FormatMoney(SalesTotal(recs, af)) \o " ("
                      \o ToString(Len(recs)) \o " records)">> >>
                 \o [i \in 1..upto |-> <<SaleLine(shown[i], af)>>],
              raised |-> bad # {}]

\* what the answer resp to the listing request adds to context_parts
ListingOutcome(t, advanced, max, resp) ==
    IF resp.status = 0 THEN [parts |-> <<>>, raised |-> TRUE]
    ELSE IF resp.status # 200 THEN [parts |-> <<>>, raised |-> FALSE]
    ELSE IF resp.value = <<>> THEN [parts |-> <<>>, raised |-> FALSE]
    ELSE IF t = "cr5cd_sales" /\ advanced /\ FirstN(resp.value, max) # <<>>
    THEN SalesAdvancedOutcome(FirstN(resp.value, max))
    ELSE IF IsSalesName(t) /\ FirstN(resp.value, max) # <<>>
    THEN SalesOutcome(t, FirstN(resp.value, max))
    ELSE [parts |-> <<_summarize_generic_records(t, FirstN(resp.value, max))>>,
          raised |-> FALSE]

\* "\n".join(parts) as the sequence of its lines
RECURSIVE JoinParts(_)
JoinParts(parts) ==
    IF parts = <<>> THEN <<>> ELSE Head(parts) \o JoinParts(Tail(parts))

-----------------------------------------------------------------------------
(* search_dataverse_tables as a process: one call at a time, one step per  *)
(* phase of the loop body.                                                  *)

MaxCalls == 2

DefaultMaxResults == 5

DATAVERSE_TABLES == <<"account", "contact", "cr5cd_sales">>

Configs ==
    { DefaultConfig,
      Config(TRUE, "https://org.crm.dynamics.com", FALSE),
      Config(FALSE, "https://org.crm.dynamics.com", TRUE),
      Config(TRUE, "", TRUE) }

\* a call: its query, and its table_names argument unless it is None
CallOf(q, given, tn) == [q |-> q, given |-> given, tn |-> tn]

Calls ==
    { CallOf(<<"acme">>, TRUE, <<"task", "account">>),
      CallOf(<<"total", SP, "sales", SP, "2024">>, TRUE, <<"cr5cd_sales">>),
      CallOf(<<"Count", SP, "from", SP, "task">>, TRUE, <<"task", "account">>),
      CallOf(<<"show", SP, "records", SP, "from", SP, "account">>, FALSE, <<>>),
      CallOf(<<>>, TRUE, <<"sales", "account">>),
      CallOf(<<"acme">>, TRUE, <<>>) }

\* the answers the services may give
NumericAnswers == { Response(200, TaxAndPrice), Response(500, <<>>) }

ExactAnswers(t) ==
    { Response(200, Entity(_heuristic_entity_set_name(t), t)),
      Response(404, Entity("", "")) }

SearchAnswers(t) ==
    { Response(200, <<Entity("", t), Entity("others", "other"),
                      IF t = "account"
                      THEN Entity("accountleadscollection", "accountleads")
                      ELSE Entity(t \o "_collection", t)>>),
      Response(0, <<>>) }

DateAnswers ==
    { Response(200, <<Attr("createdon", "DateTime"),
                      Attr("cr5cd_orderdate", "DateTime")>>),
      Response(500, <<>>) }

AggAnswers ==
    { Response(200, <<AggRow(Num(3000), Num(7))>>),
      Response(200, <<AggRow(Null, Null)>>),
      Response(500, <<>>) }

Order ==
    <<Field("cr5cd_itemname", Str("Widget")),
      Field("cr5cd_salesordernumber", Str("SO1")),
      Field("cr5cd_unitprice", Num(10)),
      Field("cr5cd_quantityordered", Str("12")),
      Field("cr5cd_taxamount", Num(2)),
      Field("cr5cd_orderdate", Str("2024-05-01T10:00:00Z"))>>

OrderNumericDate ==
    <<Field("cr5cd_itemname", Null),
      Field("cr5cd_unitprice", Num(10)),
      Field("cr5cd_orderdate", Num(20240501))>>

OrderBadPrice ==
    <<Field("cr5cd_itemname", Str("Widget")),
      Field("cr5cd_unitprice", Str("n/a"))>>

Sale ==
    <<Field("name", Str("Deal")), Field("amount", Num(100)),
      Field("createdon", Str("2024-05-01T10:00:00Z"))>>

SaleNullAmount == <<Field("name", Str("Deal")), Field("amount", Null)>>

NoRelevantLtd ==
    <<Field("name", Str("No relevant data Ltd")), Field("revenue", Num(500))>>

RowsOf(t) ==
    IF t = "cr5cd_sales"
    THEN { <<Order, Order>>, <<Order, OrderNumericDate>>, <<OrderBadPrice>> }
    ELSE IF IsSalesName(t)
    THEN { <<Sale, Sale>>, <<Sale, SaleNullAmount>> }
    ELSE IF t = "account"
    THEN { <<Acme, Globex>>, <<NoRelevantLtd>> }
    ELSE { <<Acme, Globex>> }

ListAnswers(t) ==
    { Response(200, rows) : rows \in RowsOf(t) }
    \cup { Response(200, <<>>), Response(404, <<>>), Response(0, <<>>) }

\* without the test of DATAVERSE_ENVIRONMENT_URL
get_dataverse_token_NoUrlCheck(cfg, cred, tok, auth) ==
    IF ~cfg.ENABLE_DATAVERSE
    THEN [ret |-> None, credential |-> cred, token |-> tok]
    ELSE IF ~auth
    THEN [ret |-> None, credential |-> "credential", token |-> tok]
    ELSE [ret |-> "token", credential |-> "credential", token |-> "token"]

\* auth: the credential returns a token rather than raising
get_dataverse_token(cfg, cred, tok, auth) ==
    IF ~cfg.ENABLE_DATAVERSE
    THEN [ret |-> None, credential |-> cred, token |-> tok]
    ELSE IF cfg.DATAVERSE_ENVIRONMENT_URL = ""
    THEN [ret |-> None, credential |-> cred, token |-> tok]
    ELSE IF ~auth
    THEN [ret |-> None, credential |-> "credential", token |-> tok]
    ELSE [ret |-> "token", credential |-> "credential", token |-> "token"]

Init ==
    /\ \E cfg \in Configs : Imported(cfg)
    /\ query = <<>>
    /\ attrs = Response(0, <<>>)
    /\ records = <<>>
    /\ table_name = None
    /\ step = "input"
    /\ out = None

\* no direct call of a helper is on record
ForgetDirectCall ==
    /\ attrs' = Response(0, <<>>)
    /\ records' = <<>>
    /\ table_name' = None
    /\ step' = "input"
    /\ out' = None

\* sub in str, for strings
StrContains(sub, str) ==
    \E k \in 0..(Len(str) - Len(sub)) : SubSeq(str, k + 1, k + Len(sub)) = sub

\* sub in text, for a sub without a newline
TextContains(sub, text) ==
    \E i \in 1..Len(text) : StrContains(sub, text[i])

\* the text get_context_from_dataverse returns when search_dataverse_tables
\* returns dataverse_context (not called when Dataverse is disabled); the
\* pictograph that opens the heading is left out
get_context_from_dataverse(enabled, dataverse_context) ==
    IF /\ enabled
       /\ dataverse_context # EmptyString
       /\ ~TextContains("No relevant", dataverse_context)
    THEN <<"Dataverse Records:">> \o dataverse_context
    ELSE <<"No relevant context found in Dataverse.">>

\* the explicit table of the query replaces the caller's list
SelectedTables_ExplicitWins(given, tn, explicit) ==
    IF explicit # None THEN <<explicit>>
    ELSE IF given THEN tn
    ELSE DATAVERSE_TABLES

\* "if table_names is None:
\*      table_names = [explicit_table] if explicit_table else DATAVERSE_TABLES";
\* given: the caller passed a list, tn
SelectedTables(given, tn, explicit) ==
    IF given THEN tn
    ELSE IF explicit # None THEN <<explicit>>
    ELSE DATAVERSE_TABLES

\* entry of search_dataverse_tables up to the loop, called by via
Enter(c, via) ==
    /\ pc \in {"idle", "done"}
    /\ calls < MaxCalls
    /\ calls' = calls + 1
    /\ query' = c.q
    /\ max_results' = DefaultMaxResults
    /\ context_parts' = <<>>
    /\ hist' = <<>>
    /\ requests' = <<>>
    /\ result' = EmptyString
    /\ UNCHANGED <<config, _entity_set_name_cache>>
    /\ IF ~config.ENABLE_DATAVERSE
       THEN /\ pc' = "done"
            /\ table_names' = <<>>
            /\ explicit_table' = None
            /\ search_term' = <<>>
            /\ idx' = 0
            /\ UNCHANGED <<_credential, _dataverse_token>>
       ELSE \E auth \in BOOLEAN :
            LET got == get_dataverse_token(config, _credential,
                                           _dataverse_token, auth)
                explicit == _extract_table_name_from_query(c.q)
            IN  /\ _credential' = got.credential
                /\ _dataverse_token' = got.token
                /\ IF got.ret = None
                   THEN /\ pc' = "done"
                        /\ table_names' = <<>>
                        /\ explicit_table' = None
                        /\ search_term' = <<>>
                        /\ idx' = 0
                   ELSE /\ pc' = "loop"
                        /\ explicit_table' = explicit
                        /\ search_term' = _extract_search_term(c.q)
                        /\ table_names' = SelectedTables(c.given, c.tn, explicit)
                        /\ idx' = 1
    /\ IF via = "get_context_from_dataverse"
       THEN /\ attrs' = Response(0, <<>>)
            /\ records' = <<>>
            /\ table_name' = None
            /\ step' = via
            /\ out' = IF pc' = "done"
                      THEN get_context_from_dataverse(
                               config.ENABLE_DATAVERSE, EmptyString)
                      ELSE None
       ELSE ForgetDirectCall

\* a call search_dataverse_tables(query, table_names=...)
Call(c) == Enter(c, "search_dataverse_tables")

\* a call get_context_from_dataverse(query): it passes no table list
GetContext(c) == ~c.given /\ Enter(c, "get_context_from_dataverse")

\* where the parts of the table being searched start in context_parts
PartsStart == IF hist = <<>> THEN 1 ELSE hist[Len(hist)].to + 1

\* where the requests of the table being searched start in requests
RequestsStart == IF hist = <<>> THEN 1 ELSE hist[Len(hist)].rto + 1

\* agg: the aggregate attempt appended a digest; parts, reqs: context_parts
\* and requests when the iteration ends
HistEntry(t, raised, parts, agg, reqs) ==
    [table |-> t, raised |-> raised, from |-> PartsStart, to |-> Len(parts),
     agg |-> agg, rfrom |-> RequestsStart, rto |-> Len(reqs)]

\* the listing is skipped after every aggregate digest
ContinueAfterAggregate_Always(agg_summary, explicit) == agg_summary # None

\* "if agg_summary: ... if explicit_table: continue"
ContinueAfterAggregate(agg_summary, explicit) ==
    agg_summary # None /\ explicit # None

\* an exception of the loop body reaches the handler of the whole call
PerTableHandler_Propagates == FALSE

\* the per-table handler: "except Exception ... continue"
PerTableHandlerCatches == TRUE

\* the aggregate attempt for table_names[idx]
AggregatePhase ==
    /\ pc = "loop"
    /\ idx <= Len(table_names)
    /\ \E intent \in { _parse_aggregate_intent(query, TRUE, num) :
                          num \in NumericAnswers } :
        LET t == table_names[idx]
            r0 == IF query # <<>> /\ AggregateOp(query) # None
                  THEN <<Request("attributes", t, "EntityDefinitions", "")>>
                  ELSE <<>>
        IN  IF intent = NoIntent
            THEN /\ pc' = "listing"
                 /\ requests' = requests \o r0
                 /\ UNCHANGED <<_entity_set_name_cache, context_parts, hist, idx>>
            ELSE \E ag \in { _dataverse_aggregate(
                                  _entity_set_name_cache, TRUE, t,
                                  intent[1], intent[2], intent[3],
                                  exact, search, dates, agg) :
                              exact \in ExactAnswers(t),
                              search \in SearchAnswers(t),
                              dates \in DateAnswers, agg \in AggAnswers } :
                 /\ _entity_set_name_cache' = ag.cache
                 /\ requests' = requests \o r0 \o ag.reqs
                 /\ IF ag.ret = None
                    THEN /\ pc' = "listing"
                         /\ UNCHANGED <<context_parts, hist, idx>>
                    ELSE /\ context_parts' = Append(context_parts, <<ag.ret>>)
                         /\ IF ContinueAfterAggregate(ag.ret, explicit_table)
                            THEN /\ hist' = Append(hist,
                                     HistEntry(t, FALSE, context_parts',
                                               TRUE, requests'))
                                 /\ idx' = idx + 1
                                 /\ pc' = "loop"
                            ELSE /\ pc' = "listing"
                                 /\ UNCHANGED <<hist, idx>>
    /\ UNCHANGED <<query, purevars, config, _credential, _dataverse_token,
                   calls, max_results, table_names, explicit_table,
                   search_term, result>>

\* the plain listing of table_names[idx]
ListingPhase ==
    /\ pc = "listing"
    /\ \E es \in { _get_entity_set_name(_entity_set_name_cache, TRUE,
                                        table_names[idx], exact, search) :
                     exact \in ExactAnswers(table_names[idx]),
                     search \in SearchAnswers(table_names[idx]) },
          o \in { ListingOutcome(table_names[idx],
                                 config.ENABLE_SALES_ADVANCED, max_results,
                                 resp) :
                    resp \in ListAnswers(table_names[idx]) } :
        LET t == table_names[idx]
            endpoint == IF es.ret # None THEN es.ret
                        ELSE _heuristic_entity_set_name(t)
            filter == ListFilter(t, config.ENABLE_SALES_ADVANCED, query,
                                 search_term)
        IN  /\ _entity_set_name_cache' = es.cache
            /\ requests' = requests \o es.reqs
                           \o <<Request("list", t, endpoint, filter)>>
            /\ context_parts' = context_parts \o o.parts
            /\ hist' = Append(hist,
                   HistEntry(t, o.raised, context_parts',
                             Len(context_parts) >= PartsStart, requests'))
            /\ IF o.raised /\ ~PerTableHandlerCatches
               THEN /\ pc' = "done"
                    /\ result' = EmptyString
                    /\ idx' = idx
               ELSE /\ pc' = "loop"
                    /\ idx' = idx + 1
                    /\ result' = result
    /\ UNCHANGED <<query, purevars, config, _credential, _dataverse_token,
                   calls, max_results, table_names, explicit_table,
                   search_term>>

\* after the loop
Return ==
    /\ pc = "loop"
    /\ idx > Len(table_names)
    /\ pc' = "done"
    /\ result' = IF context_parts = <<>>
                 THEN <<"No relevant records found in Dataverse.">>
                 ELSE JoinParts(context_parts)
    /\ out' = IF step = "get_context_from_dataverse"
              THEN get_context_from_dataverse(config.ENABLE_DATAVERSE, result')
              ELSE out
    /\ UNCHANGED <<query, attrs, records, table_name, step, procvars, calls,
                   max_results, table_names, explicit_table, search_term, idx,
                   context_parts, hist, requests>>

\* a direct call _summarize_generic_records(t, []) between two searches
SummarizeNoRecords(t) ==
    /\ pc \in {"idle", "done"}
    /\ table_name' = t
    /\ records' = <<>>
    /\ step' = "_summarize_generic_records"
    /\ out' = _summarize_generic_records(t, <<>>)
    /\ UNCHANGED <<query, attrs, procvars, callvars>>

Next ==
    \/ \E c \in Calls : Call(c)
    \/ \E c \in Calls : GetContext(c)
    \/ AggregatePhase
    \/ ListingPhase
    \/ Return
    \/ \E t \in {"account", "task"} : SummarizeNoRecords(t)

Spec == Init /\ [][Next]_vars


-----------------------------------------------------------------------------
(* Properties of the retrieval loop.                                       *)

\* the lines that the parts from..to of context_parts contribute
PartLines(from, to) == JoinParts(SubSeq(context_parts, from, to))

\* lines occurs in text as a run of consecutive lines
IsInfix(lines, text) ==
    \E k \in 0..(Len(text) - Len(lines)) :
        SubSeq(text, k + 1, k + Len(lines)) = lines

\* C1: a failure while processing one table never aborts the call: once a
\* call that entered its loop has returned, every table of the sequence has
\* been processed, in order, and the digest of each table that did not
\* raise is present in the returned context.
C1_FailureNeverAborts ==
    (pc = "done" /\ table_names # <<>>) =>
        /\ Len(hist) = Len(table_names)
        /\ \A i \in 1..Len(hist) :
              /\ hist[i].table = table_names[i]
              /\ (~hist[i].raised /\ hist[i].to >= hist[i].from) =>
                     IsInfix(PartLines(hist[i].from, hist[i].to), result)

\* the first of two tables raised in its listing and the second table's
\* digest is in the returned context
C1_Witness ==
    /\ pc = "done"
    /\ Len(hist) = 2
    /\ hist[1].raised
    /\ ~hist[2].raised
    /\ hist[2].table = "account"
    /\ hist[2].to >= hist[2].from
    /\ IsInfix(<<"  - Acme", "  - Globex">>, result)

\* C9: summarizing an empty row sequence returns exactly
\* "[{table}] No records found.", whatever the searches made before it left
\* in the entity-set cache and the token.
C9_EmptyRowsSentinel ==
    (step = "_summarize_generic_records" /\ records = <<>>) =>
        /\ table_name \in {"account", "task"}
        /\ table_name = "account" => out = <<"[account] No records found.">>
        /\ table_name = "task" => out = <<"[task] No records found.">>

\* the summary of no rows, asked for after a search that filled the cache
C9_Witness ==
    /\ step = "_summarize_generic_records"
    /\ records = <<>>
    /\ table_name = "task"
    /\ out = <<"[task] No records found.">>
    /\ calls > 0
    /\ _dataverse_token # None
    /\ _entity_set_name_cache["account"] # None


\* the call reached its loop: a token was obtained
LoopEntered == idx > 0

\* table i of the finished loop left no part, or its processing raised
NoDigestFrom(i) == hist[i].raised \/ hist[i].to < hist[i].from

\* C11: when no table yields a digest (each table fails, returns no rows or
\* is skipped), a call that obtained its token returns exactly the sentinel
\* "No relevant records found in Dataverse.".
C11_SentinelWhenNoDigest ==
    (pc = "done" /\ LoopEntered /\ \A i \in 1..Len(hist) : NoDigestFrom(i)) =>
        result = <<"No relevant records found in Dataverse.">>


\* C12: the no-records sentinel is distinguishable from every real digest:
\* when get_context_from_dataverse has returned, the digest of each table
\* that yielded one is in the returned context, and the no-context sentinel
\* is returned only when no table yielded a digest, whatever the text of
\* the record values.
C12_SentinelDistinguishable ==
    (pc = "done" /\ step = "get_context_from_dataverse") =>
        /\ \A i \in 1..Len(hist) :
              ~NoDigestFrom(i) =>
                  IsInfix(PartLines(hist[i].from, hist[i].to), out)
        /\ out = <<"No relevant context found in Dataverse.">> =>
              \A i \in 1..Len(hist) : NoDigestFrom(i)


\* the kinds of the requests sent for table i of the finished loop
KindsOf(i) ==
    [k \in 1..(hist[i].rto - hist[i].rfrom + 1) |->
        requests[hist[i].rfrom + k - 1].kind]

\* the positions in the requests of table i of the requests of this kind
PositionsOf(i, kind) == { k \in 1..Len(KindsOf(i)) : KindsOf(i)[k] = kind }

\* C13: for each table the aggregate is attempted before the plain listing;
\* when it produced a digest and the query names an explicit table, no
\* listing request is sent and nothing but that digest is appended for the
\* table, and the loop goes on; in every other case the listing request is
\* sent, once and after the aggregate request.
C13_AggregateBeforeListing ==
    /\ \A i \in 1..Len(hist) :
          /\ hist[i].table = table_names[i]
          /\ \A a \in PositionsOf(i, "aggregate"), l \in PositionsOf(i, "list") :
                a < l
          /\ IF hist[i].agg /\ explicit_table # None
             THEN /\ PositionsOf(i, "list") = {}
                  /\ hist[i].to = hist[i].from
                  /\ ~hist[i].raised
             ELSE PositionsOf(i, "list") = {Len(KindsOf(i))}
    /\ pc = "done" /\ LoopEntered => Len(hist) = Len(table_names)

\* an explicit table whose aggregate digest was produced is followed by the
\* next table of the sequence, whose listing ran after its aggregate gave
\* no digest
C13_Witness ==
    /\ pc = "done"
    /\ explicit_table = "task"
    /\ Len(hist) = 2
    /\ hist[1].agg
    /\ PositionsOf(1, "list") = {}
    /\ PositionsOf(1, "aggregate") # {}
    /\ ~hist[2].agg
    /\ PositionsOf(2, "aggregate") # {}
    /\ PositionsOf(2, "list") # {}
    /\ hist[2].to >= hist[2].from


-----------------------------------------------------------------------------
(* The metadata helpers called directly, one after another.                *)

MaxHelperCalls == 3

HelperTables == {"account", "Account"}

\* _dataverse_token or get_dataverse_token()
TokenFor(cfg, cred, tok, auth) ==
    IF tok # None THEN [ret |-> tok, credential |-> cred, token |-> tok]
    ELSE get_dataverse_token(cfg, cred, tok, auth)

\* a finished helper call: what it returned, how many requests it sent,
\* whether its fetch succeeded, and the cache entry of its table before and
\* after it
HelperEntry(op, t, ret, sent, ok, held, after) ==
    [op |-> op, table |-> t, ret |-> ret, sent |-> sent, ok |-> ok,
     held |-> held, after |-> after]

InitMeta ==
    /\ \E cfg \in Configs : Imported(cfg)
    /\ query = <<>>
    /\ attrs = Response(0, <<>>)
    /\ records = <<>>
    /\ table_name = None
    /\ step = "input"
    /\ out = None

\* a call _get_entity_set_name(t)
GetEntitySetName(t) ==
    /\ calls < MaxHelperCalls
    /\ \E auth \in BOOLEAN, exact \in ExactAnswers(t), search \in SearchAnswers(t) :
        LET key == LowerName(t)
            cached == _entity_set_name_cache[key] # None
            got == IF cached
                   THEN [ret |-> _dataverse_token, credential |-> _credential,
                         token |-> _dataverse_token]
                   ELSE TokenFor(config, _credential, _dataverse_token, auth)
            es == _get_entity_set_name(_entity_set_name_cache, got.ret # None,
                                       t, exact, search)
            cache1 == es.cache
        IN  /\ _credential' = got.credential
            /\ _dataverse_token' = got.token
            /\ _entity_set_name_cache' = cache1
            /\ out' = es.ret
            /\ hist' = Append(hist,
                   HelperEntry("_get_entity_set_name", t, es.ret, Len(es.reqs),
                               Len(es.reqs) > 0 /\ es.ret # None,
                               _entity_set_name_cache[key], cache1[key]))
    /\ calls' = calls + 1
    /\ step' = "_get_entity_set_name"
    /\ table_name' = t
    /\ UNCHANGED <<query, attrs, records, config, pc, max_results, table_names,
                   explicit_table, search_term, idx, context_parts, requests,
                   result>>

\* a call _get_numeric_attributes(t)
GetNumericAttributes(t) ==
    /\ calls < MaxHelperCalls
    /\ \E auth \in BOOLEAN, num \in NumericAnswers :
        LET got == TokenFor(config, _credential, _dataverse_token, auth)
            ret == _get_numeric_attributes(got.ret # None, num)
        IN  /\ _credential' = got.credential
            /\ _dataverse_token' = got.token
            /\ out' = ret
            /\ hist' = Append(hist,
                   HelperEntry("_get_numeric_attributes", t, ret,
                               IF got.ret # None THEN 1 ELSE 0,
                               got.ret # None /\ num.status = 200,
                               _entity_set_name_cache[LowerName(t)],
                               _entity_set_name_cache[LowerName(t)]))
    /\ calls' = calls + 1
    /\ step' = "_get_numeric_attributes"
    /\ table_name' = t
    /\ UNCHANGED <<query, attrs, records, config, _entity_set_name_cache, pc,
                   max_results, table_names, explicit_table, search_term, idx,
                   context_parts, requests, result>>

\* a call _get_date_attributes(t)
GetDateAttributes(t) ==
    /\ calls < MaxHelperCalls
    /\ \E auth \in BOOLEAN, dates \in DateAnswers :
        LET got == TokenFor(config, _credential, _dataverse_token, auth)
            ret == _get_date_attributes(got.ret # None, dates)
        IN  /\ _credential' = got.credential
            /\ _dataverse_token' = got.token
            /\ out' = ret
            /\ hist' = Append(hist,
                   HelperEntry("_get_date_attributes", t, ret,
                               IF got.ret # None THEN 1 ELSE 0,
                               got.ret # None /\ dates.status = 200,
                               _entity_set_name_cache[LowerName(t)],
                               _entity_set_name_cache[LowerName(t)]))
    /\ calls' = calls + 1
    /\ step' = "_get_date_attributes"
    /\ table_name' = t
    /\ UNCHANGED <<query, attrs, records, config, _entity_set_name_cache, pc,
                   max_results, table_names, explicit_table, search_term, idx,
                   context_parts, requests, result>>

NextMeta ==
    \/ \E t \in HelperTables : GetEntitySetName(t)
    \/ \E t \in HelperTables : GetNumericAttributes(t)
    \/ \E t \in HelperTables : GetDateAttributes(t)

SpecMeta == InitMeta /\ [][NextMeta]_vars


\* helper calls i < j asking for the same metadata of the same lower-cased
\* table
SameMetadata(i, j) ==
    /\ i < j
    /\ hist[i].op = hist[j].op
    /\ LowerName(hist[i].table) = LowerName(hist[j].table)

\* C14: once one of the three metadata results (entity-set name, numeric
\* fields, date fields) has been fetched successfully for a lower-cased
\* table, every later request for that result for that table sends no
\* metadata-service request.
C14_AllMetadataCached ==
    \A i \in 1..Len(hist), j \in 1..Len(hist) :
        (SameMetadata(i, j) /\ hist[i].ok) => hist[j].sent = 0

\* C15: once the entity-set cache holds a name for a lower-cased table key,
\* no helper call changes or removes the entry, and every later
\* _get_entity_set_name call for the table, in any letter case, returns that
\* name without consulting the metadata service.
C15_EntitySetCacheStable ==
    /\ \A j \in 1..Len(hist) :
          hist[j].held # None =>
              /\ hist[j].after = hist[j].held
              /\ hist[j].op = "_get_entity_set_name" =>
                    hist[j].ret = hist[j].held /\ hist[j].sent = 0
    /\ \A i \in 1..Len(hist), j \in 1..Len(hist) :
          (/\ i < j
           /\ LowerName(hist[i].table) = LowerName(hist[j].table)
           /\ hist[i].after # None) =>
              /\ hist[j].held = hist[i].after
              /\ _entity_set_name_cache[LowerName(hist[j].table)] = hist[i].after

\* "account" is resolved by the service, then "Account" is asked for and the
\* cached name comes back although the service would have answered
C15_Witness ==
    /\ Len(hist) >= 2
    /\ hist[1].op = "_get_entity_set_name" /\ hist[1].table = "account"
    /\ hist[1].ok /\ hist[1].ret = "accounts"
    /\ hist[2].op = "_get_entity_set_name" /\ hist[2].table = "Account"
    /\ hist[2].ret = "accounts" /\ hist[2].sent = 0


\* each metadata helper, called in the current state without a token to be
\* had, returns none or empty, sends nothing and leaves the cache alone
HelpersDegrade ==
    \A t \in HelperTables \cup {"cr5cd_sales", ""} :
        /\ \A exact \in ExactAnswers(t), search \in SearchAnswers(t) :
              _get_entity_set_name(_entity_set_name_cache, FALSE, t,
                                   exact, search)
                  = [ret |-> None, cache |-> _entity_set_name_cache,
                     reqs |-> <<>>]
        /\ \A num \in NumericAnswers : _get_numeric_attributes(FALSE, num) = <<>>
        /\ \A dates \in DateAnswers : _get_date_attributes(FALSE, dates) = <<>>

\* C16: when the token provider yields null (Dataverse disabled, no URL
\* configured, or authentication raising), search_dataverse_tables returns
\* the empty string without raising and sends no request, the metadata
\* helpers return none/empty, and get_context_from_dataverse returns the
\* no-context sentinel.
C16_NullTokenDegrades ==
    /\ (~config.ENABLE_DATAVERSE \/ config.DATAVERSE_ENVIRONMENT_URL = "") =>
          _dataverse_token = None
    /\ (calls > 0 /\ (_dataverse_token = None \/ idx = 0)) =>
          /\ pc = "done"
          /\ result = EmptyString
          /\ requests = <<>>
          /\ hist = <<>>
          /\ step = "get_context_from_dataverse" =>
                out = <<"No relevant context found in Dataverse.">>
    /\ _dataverse_token = None => HelpersDegrade

\* authentication raised in a get_context_from_dataverse call
C16_Witness ==
    /\ calls > 0
    /\ pc = "done"
    /\ config.ENABLE_DATAVERSE
    /\ config.DATAVERSE_ENVIRONMENT_URL # ""
    /\ _credential # None
    /\ _dataverse_token = None
    /\ result = EmptyString
    /\ step = "get_context_from_dataverse"
    /\ out = <<"No relevant context found in Dataverse.">>


-----------------------------------------------------------------------------
(* The digest of one table over rows whose fields may be absent or null.   *)

MaxDigestRows == 2

Presence == {"value", "null", "absent"}

\* the field k of a row: holding v, holding null, or not in the row
Opt(k, v, c) ==
    IF c = "absent" THEN <<>>
    ELSE IF c = "null" THEN <<Field(k, Null)>>
    ELSE <<Field(k, v)>>

\* the rows of table t with each field present, null or absent
SparseRows(t) ==
    IF t = "cr5cd_sales"
    THEN { Opt("cr5cd_itemname", Str("Widget"), a)
           \o Opt("cr5cd_unitprice", Num(10), b)
           \o <<Field("cr5cd_quantityordered", Num(2))>>
           \o Opt("cr5cd_orderdate", Str("2024-05-01T10:00:00Z"), c) :
             a \in Presence, b \in Presence, c \in Presence }
    ELSE IF IsSalesName(t)
    THEN { Opt("name", Str("Deal"), a) \o Opt("amount", Num(100), b)
           \o Opt("createdon", Str("2024-05-01T10:00:00Z"), c) :
             a \in Presence, b \in Presence, c \in Presence }
    ELSE { Opt("name", Str("Acme"), a) \o Opt("revenue", Num(1000), b)
           \o Opt("createdon", Str("2024-05-01T10:00:00Z"), c) :
             a \in Presence, b \in Presence, c \in Presence }

InitDigest ==
    /\ table_name \in {"account", "sales", "cr5cd_sales"}
    /\ \E k \in 1..MaxDigestRows : records \in [1..k -> SparseRows(table_name)]
    /\ \E cfg \in {c \in Configs : c.ENABLE_DATAVERSE
                                   /\ c.DATAVERSE_ENVIRONMENT_URL # ""} :
          Imported(cfg)
    /\ query = <<>>
    /\ attrs = Response(0, <<>>)
    /\ step = "input"
    /\ out = None

\* the answer 200 with the rows arrives for the table
Digest ==
    /\ step = "input"
    /\ step' = "digest"
    /\ out' = ListingOutcome(table_name, config.ENABLE_SALES_ADVANCED,
                             DefaultMaxResults, Response(200, records))
    /\ UNCHANGED <<query, attrs, records, table_name, procvars, callvars>>

SpecDigest == InitDigest /\ [][Digest]_vars

\* C17: producing a table's digest never raises because a field of a row is
\* absent or null: the generic summarizer and the sales-shaped
\* specializations complete and emit the digest of the table.
C17_DigestNeverRaisesOnNull ==
    step = "digest" => ~out.raised /\ out.parts # <<>>


-----------------------------------------------------------------------------
(* The request parameters built for a table identifier, in either letter   *)
(* case.                                                                   *)

CaseTables ==
    {"account", "Account", "contact", "Contact", "cr5cd_sales", "CR5CD_SALES",
     "sales", "Sales", "task", "Task"}

CaseQueries ==
    { <<>>, <<"acme">>, <<"sales", SP, "2024">>, <<"acme", SP, "2023">>,
      <<"2024">>, <<"show", SP, "records", SP, "from", SP, "account">> }

\* params["$select"], "" when the request carries no select list
ListSelect(t, advanced) ==
    IF t = "account" THEN "name,description,revenue,createdon"
    ELSE IF t = "contact" THEN "fullname,emailaddress1,jobtitle,createdon"
    ELSE IF t = "cr5cd_sales" /\ advanced
    THEN "cr5cd_itemname,cr5cd_salesordernumber,cr5cd_customerid"
         \o ",cr5cd_unitprice,cr5cd_quantityordered,cr5cd_taxamount"
         \o ",cr5cd_orderdate,createdon"
    ELSE IF IsSalesName(t)
    THEN "name,createdon"
         \o ",cr123_amount,cr123_salesamount,cr123_totalamount,salesamount,totalamount,amount"
         \o ",cr123_date,cr123_salesdate,salesdate,transactiondate"
         \o ",cr123_product,cr123_productname,productname"
    ELSE ""

\* what _heuristic_entity_set_name appends to the table name
HeuristicSuffix(t) ==
    SubSeq(_heuristic_entity_set_name(t), Len(t) + 1,
           Len(_heuristic_entity_set_name(t)))

\* the select list, the filter and the heuristic entity set of table t
ParamsOf(t, advanced, q) ==
    [select |-> ListSelect(t, advanced),
     filter |-> ListFilter(t, advanced, q, _extract_search_term(q)),
     heuristic |-> _heuristic_entity_set_name(t)]

InitCase ==
    /\ table_name \in CaseTables
    /\ query \in CaseQueries
    /\ \E cfg \in {c \in Configs : c.ENABLE_DATAVERSE
                                   /\ c.DATAVERSE_ENVIRONMENT_URL # ""} :
          Imported(cfg)
    /\ attrs = Response(0, <<>>)
    /\ records = <<>>
    /\ step = "input"
    /\ out = None

BuildParams ==
    /\ step = "input"
    /\ step' = "params"
    /\ out' = ParamsOf(table_name, config.ENABLE_SALES_ADVANCED, query)
    /\ UNCHANGED <<query, attrs, records, table_name, procvars, callvars>>

SpecCase == InitCase /\ [][BuildParams]_vars

\* C18: table identifiers are matched case-insensitively: an identifier and
\* its lower-case form get the same select list and the same filter, and
\* the heuristic pluralizer appends the same ending to both.
C18_TableCaseInsensitive ==
    step = "params" =>
        LET low == ParamsOf(LowerName(table_name),
                            config.ENABLE_SALES_ADVANCED, query)
        IN  /\ out.select = low.select
            /\ out.filter = low.filter
            /\ SubSeq(out.heuristic, Len(table_name) + 1, Len(out.heuristic))
                  = HeuristicSuffix(LowerName(table_name))


\* the lines that table i of the loop contributed
TableBlock(i) == PartLines(hist[i].from, hist[i].to)

\* the blocks of tables i.. in order, with the lines sep between two
\* consecutive blocks
RECURSIVE JoinBlocks(_, _)
JoinBlocks(i, sep) ==
    IF i > Len(hist) THEN <<>>
    ELSE IF TableBlock(i) = <<>> THEN JoinBlocks(i + 1, sep)
    ELSE IF JoinBlocks(i + 1, sep) = <<>> THEN TableBlock(i)
    ELSE TableBlock(i) \o sep \o JoinBlocks(i + 1, sep)

\* C19: the context returned by search_dataverse_tables holds the digests in
\* the order of the table sequence, one block per table, and consecutive
\* table blocks are separated by a blank line.
C19_BlocksSeparatedByBlankLine ==
    (pc = "done" /\ LoopEntered /\ context_parts # <<>>) =>
        result = JoinBlocks(1, <<"">>)


-----------------------------------------------------------------------------
(* The year that scopes the listing and the aggregate of one table.        *)

MaxIntentWords == 3

IntentVocab == {"2024", "2023", "20245", "x2024", "total", "sales"}

IntentTables == {"account", "cr5cd_sales", "sales", "task"}

InitIntent ==
    /\ IsTextOver(query, IntentVocab, {<<SP>>}, MaxIntentWords)
    /\ table_name \in IntentTables
    /\ \E cfg \in {c \in Configs : c.ENABLE_DATAVERSE
                                   /\ c.DATAVERSE_ENVIRONMENT_URL # ""} :
          Imported(cfg)
    /\ attrs \in NumericAnswers
    /\ records = <<>>
    /\ step = "input"
    /\ out = None

\* one table of the loop up to its listing request: the aggregate intent,
\* then the filter of the listing
TableIntent ==
    /\ step = "input"
    /\ step' = "intent"
    /\ out' = [aggregate |-> _parse_aggregate_intent(query, TRUE, attrs),
               filter |-> ListFilter(table_name, config.ENABLE_SALES_ADVANCED,
                                     query, _extract_search_term(query))]
    /\ UNCHANGED <<query, attrs, records, table_name, procvars, callvars>>

SpecIntent == InitIntent /\ [][TableIntent]_vars

\* the years and date fields a Between filter can name
FilterYears == {"2023", "2024", "2025", "2026"}

FilterFields == {"cr5cd_orderdate", "createdon"}

\* C20: for every table, the year of the listing filter (when a year filter
\* is emitted) and the year of the aggregate intent are both the year that
\* _extract_year_from_query returns for the query, so no two tables are
\* scoped by different years or by a year from a different token.
C20_YearConsistent ==
    step = "intent" =>
        /\ \A f \in FilterFields, y \in FilterYears :
              out.filter = Between(f, y) => y = _extract_year_from_query(query)
        /\ out.aggregate # NoIntent =>
              out.aggregate[3] = _extract_year_from_query(query)


-----------------------------------------------------------------------------
(* The endpoint of one table: entity-set resolution on an empty cache,     *)
(* then the heuristic.                                                     *)

ResolveTables == {"account", "Account", "cr5cd_sales", "sales", "task"}

\* the answers to the exact lookup: found, found without entity set, not
\* found, and an exception of the request
ResolveExactAnswers(t) ==
    ExactAnswers(t) \cup { Response(200, Entity("", t)),
                           Response(0, Entity("", "")) }

\* the answers to the contains search: entities, none matching, none at all,
\* a server error, and an exception of the request
ResolveSearchAnswers(t) ==
    SearchAnswers(t) \cup { Response(200, <<Entity("others", "other")>>),
                            Response(200, <<>>), Response(500, <<>>) }

InitResolve ==
    /\ table_name \in ResolveTables
    /\ attrs \in ResolveExactAnswers(table_name)
    /\ records \in ResolveSearchAnswers(table_name)
    /\ \E cfg \in {c \in Configs : c.ENABLE_DATAVERSE
                                   /\ c.DATAVERSE_ENVIRONMENT_URL # ""} :
          Imported(cfg)
    /\ query = <<>>
    /\ step = "input"
    /\ out = None

\* endpoint = _get_entity_set_name(table_name)
\*            or _heuristic_entity_set_name(table_name)
ResolveEndpoint ==
    /\ step = "input"
    /\ step' = "endpoint"
    /\ \E es \in { _get_entity_set_name(_entity_set_name_cache, TRUE,
                                        table_name, attrs, records) } :
          /\ out' = [endpoint |-> IF es.ret # None THEN es.ret
                                  ELSE _heuristic_entity_set_name(table_name),
                     reqs |-> es.reqs, raised |-> FALSE]
          /\ _entity_set_name_cache' = es.cache
    /\ _dataverse_token' = "token"
    /\ UNCHANGED <<query, attrs, records, table_name, config, _credential,
                   callvars>>

SpecResolve == InitResolve /\ [][ResolveEndpoint]_vars

\* the exact lookup answered 200 with an entity set
ExactFound == attrs.status = 200 /\ attrs.value.EntitySetName # ""

\* the entities of the search answer that carry an entity set and whose
\* lower-cased logical name equals or contains the lower-cased table name
SearchMatches ==
    IF records.status # 200 THEN {}
    ELSE { i \in 1..Len(records.value) :
             /\ records.value[i].EntitySetName # ""
             /\ IsSubstring(LowerSeq(Chars(table_name)),
                            LowerSeq(Chars(records.value[i].LogicalName))) }

\* the kinds of the requests sent, in order
ResolveKinds == [i \in 1..Len(out.reqs) |-> out.reqs[i].kind]

-----------------------------------------------------------------------------
(* The aggregate attempt of one table of the loop.                         *)

AggTableQueries ==
    { <<"total", SP, "sales", SP, "2024">>,
      <<"total", SP, "from", SP, "task">>,
      <<"Count", SP, "from", SP, "task">>,
      <<"count", SP, "2024">>,
      <<"average", SP, "from", SP, "task", SP, "2024">>,
      <<"acme">> }

\* answers to the Attributes request of _get_numeric_attributes
AggTableNumericAnswers ==
    NumericAnswers \cup { Response(200, <<Attr("name", "String")>>),
                          Response(200, <<>>) }

\* answers to the Attributes request of _get_date_attributes
AggTableDateAnswers ==
    DateAnswers
    \cup { Response(200, <<Attr("createdon", "DateTime")>>),
           Response(200, <<Attr("modifiedon", "DateTime"),
                           Attr("orderdate", "String")>>),
           Response(200, <<Attr("estimatedclosedate", "DateTime"),
                           Attr("actualclosedate", "DateTime")>>) }

InitAggTable ==
    /\ query \in AggTableQueries
    /\ table_name \in {"task", "cr5cd_sales"}
    /\ attrs \in AggTableNumericAnswers
    /\ records \in AggTableDateAnswers
    /\ \E cfg \in {c \in Configs : c.ENABLE_DATAVERSE
                                   /\ c.DATAVERSE_ENVIRONMENT_URL # ""} :
          Imported(cfg)
    /\ step = "input"
    /\ out = None

\* the loop body for table_name up to the decision whether its listing
\* runs: intent, aggregate request, "continue" after a fulfilled aggregate
\* of an explicit table
AggregateAttempt ==
    /\ step = "input"
    /\ step' = "aggregate"
    /\ \E intent \in { _parse_aggregate_intent(query, TRUE, attrs) },
          agg \in AggAnswers :
        IF intent = NoIntent
        THEN /\ out' = [intent |-> intent, ret |-> None, agg |-> agg,
                        reqs |-> IF AggregateOp(query) # None
                                 THEN <<Request("attributes", table_name,
                                                "EntityDefinitions", "")>>
                                 ELSE <<>>,
                        listing |-> TRUE]
             /\ UNCHANGED _entity_set_name_cache
        ELSE \E ag \in { _dataverse_aggregate(
                             _entity_set_name_cache, TRUE, table_name,
                             intent[1], intent[2], intent[3],
                             exact, search, records, agg) :
                         exact \in ExactAnswers(table_name),
                         search \in SearchAnswers(table_name) } :
             /\ out' = [intent |-> intent, ret |-> ag.ret, agg |-> agg,
                        reqs |-> <<Request("attributes", table_name,
                                           "EntityDefinitions", "")>>
                                 \o ag.reqs,
                        listing |-> ~ContinueAfterAggregate(
                                        ag.ret,
                                        _extract_table_name_from_query(query))]
             /\ _entity_set_name_cache' = ag.cache
    /\ _dataverse_token' = "token"
    /\ UNCHANGED <<query, attrs, records, table_name, config, _credential,
                   callvars>>

SpecAggTable == InitAggTable /\ [][AggregateAttempt]_vars

\* the numeric metadata of the table is unavailable or names no numeric field
NoNumericFields ==
    \/ attrs.status # 200
    \/ \A i \in 1..Len(attrs.value) :
          attrs.value[i].AttributeType \notin numeric_types

\* the aggregate requests sent for the table
AggregateRequests ==
    { i \in 1..Len(out.reqs) : out.reqs[i].kind = "aggregate" }

\* C22: with an aggregate operation other than count and no numeric fields
\* the aggregate is dropped: no aggregate request is sent for the table and
\* its plain listing runs, also when the query names an explicit table; for
\* count without numeric fields the aggregate is attempted with an empty
\* field.
C22_UnsatisfiableAggregateDropped ==
    (step = "aggregate" /\ NoNumericFields) =>
        /\ AggregateOp(query) \notin {None, "count"} =>
              /\ out.intent = NoIntent
              /\ AggregateRequests = {}
              /\ out.ret = None
              /\ out.listing
        /\ AggregateOp(query) = "count" =>
              /\ out.intent # NoIntent
              /\ out.intent[1] = "count"
              /\ out.intent[2] = ""
              /\ Cardinality(AggregateRequests) = 1

\* "total from task": a sum for an explicit table without numeric metadata
C22_Witness ==
    /\ step = "aggregate"
    /\ query = <<"total", SP, "from", SP, "task">>
    /\ _extract_table_name_from_query(query) = "task"
    /\ attrs.status = 500
    /\ AggregateRequests = {}
    /\ out.listing


\* the date fields of the table as the metadata service reports them
TableDateFields ==
    IF records.status # 200 THEN {}
    ELSE { records.value[i].LogicalName :
             i \in { j \in 1..Len(records.value) :
                       /\ records.value[j].AttributeType = "DateTime"
                       /\ records.value[j].LogicalName # "" } }

\* the first entry of the preference list that is a date field of the table
PreferredDateField ==
    LET pref == <<"cr5cd_orderdate", "orderdate", "actualclosedate",
                  "estimatedclosedate", "createdon">>
        found == { i \in 1..Len(pref) : pref[i] \in TableDateFields }
    IN  IF found = {} THEN None
        ELSE pref[CHOOSE i \in found : \A j \in found : i <= j]

\* the filter segment of the aggregate request that was sent
AggregateFilter ==
    out.reqs[CHOOSE i \in AggregateRequests : TRUE].filter

\* the range filter of year y on date field f
YearRange(f, y) ==
    "filter(" \o f \o " ge " \o y \o "-01-01 and " \o f \o " le " \o y
    \o "-12-31)/"

\* C23: the date field that scopes an aggregate request is the first entry
\* of [cr5cd_orderdate, orderdate, actualclosedate, estimatedclosedate,
\* createdon] among the table's date fields; the request carries the range
\* filter year-01-01..year-12-31 on it exactly when a year was extracted and
\* such a field exists, and no filter otherwise.
C23_AggregateDateScope ==
    (step = "aggregate" /\ AggregateRequests # {}) =>
        AggregateFilter =
            IF /\ _extract_year_from_query(query) # None
               /\ PreferredDateField # None
            THEN YearRange(PreferredDateField, _extract_year_from_query(query))
            ELSE ""

\* a year is extracted and actualclosedate precedes estimatedclosedate
C23_Witness ==
    /\ step = "aggregate"
    /\ AggregateRequests # {}
    /\ _extract_year_from_query(query) = "2024"
    /\ TableDateFields = {"estimatedclosedate", "actualclosedate"}
    /\ AggregateFilter = YearRange("actualclosedate", "2024")

\* C28: an aggregate digest carries the label " in YEAR" only if the request
\* that produced its value was filtered to the date range of that year.
C28_YearLabelOnlyWhenFiltered ==
    (/\ step = "aggregate"
     /\ out.ret # None
     /\ \E y \in {"2023", "2024"} : StrContains(" in " \o y, out.ret)) =>
        \E f \in TableDateFields, y \in {"2023", "2024"} :
            /\ StrContains(" in " \o y, out.ret)
            /\ AggregateFilter = YearRange(f, y)


\* the table takes the last, fully generic branch of the listing
FullyGeneric ==
    /\ table_name \notin {"account", "contact"}
    /\ ~(table_name = "cr5cd_sales" /\ config.ENABLE_SALES_ADVANCED)
    /\ ~IsSalesName(table_name)

\* the search term as it is written into a filter
TermText == Render(_extract_search_term(query))

\* C24: on the fully generic path the filter is the createdon year range
\* whenever a year was extracted (the search term is then dropped), the
\* disjunctive contains filter over name, subject and title when there is no
\* year and the search term is non-empty, and absent when there is neither.
C24_GenericFilter ==
    (step = "params" /\ FullyGeneric) =>
        out.filter =
            IF _extract_year_from_query(query) # None
            THEN "Microsoft.Dynamics.CRM.Between(PropertyName='createdon',"
                 \o "PropertyValues=['" \o _extract_year_from_query(query)
                 \o "-01-01','" \o _extract_year_from_query(query)
                 \o "-12-31'])"
            ELSE IF _extract_search_term(query) # <<>>
            THEN "contains(name,'" \o TermText \o "') or contains(subject,'"
                 \o TermText \o "') or contains(title,'" \o TermText \o "')"
            ELSE ""

\* "acme 2023" on task: the year filter, the term "acme 2023" is dropped
C24_Witness ==
    /\ step = "params"
    /\ table_name = "task"
    /\ query = <<"acme", SP, "2023">>
    /\ _extract_search_term(query) # <<>>
    /\ out.filter = "Microsoft.Dynamics.CRM.Between(PropertyName='createdon',"
                    \o "PropertyValues=['2023-01-01','2023-12-31'])"

\* C25: for account and contact the listing always requests the fixed
\* select list of the table, and carries a contains filter (name for
\* account; fullname or emailaddress1 for contact) exactly when the search
\* term is non-empty; with an empty term the request has no filter.
C25_KnownTableParams ==
    (step = "params" /\ table_name \in {"account", "contact"}) =>
        /\ out.select =
              IF table_name = "account"
              THEN "name,description,revenue,createdon"
              ELSE "fullname,emailaddress1,jobtitle,createdon"
        /\ out.filter =
              IF _extract_search_term(query) = <<>> THEN ""
              ELSE IF table_name = "account"
              THEN "contains(name,'" \o TermText \o "')"
              ELSE "contains(fullname,'" \o TermText
                   \o "') or contains(emailaddress1,'" \o TermText \o "')"

\* "show records from account": nothing is left of the query as search term
C25_Witness ==
    /\ step = "params"
    /\ table_name = "account"
    /\ query = <<"show", SP, "records", SP, "from", SP, "account">>
    /\ _extract_search_term(query) = <<>>
    /\ out.select = "name,description,revenue,createdon"
    /\ out.filter = ""


-----------------------------------------------------------------------------
(* The generic digest over rows that exercise every way of choosing the    *)
(* display value.                                                          *)

\* a value of 61 characters
LongText == "0123456789012345678901234567890123456789012345678901234567890"

DisplayRows ==
    {Acme,
     <<Field("name", Str("")), Field("title", Str("Report")),
       Field("owner", Str("Kim"))>>,
     <<Field("owner", Str("Kim")), Field("city", Str("Oslo")),
       Field("createdon", Str("2024-05-01T10:00:00Z"))>>,
     <<Field("title", Null), Field("city", Str("Oslo"))>>,
     <<Field("name", Null), Field("revenue", Num(5)),
       Field("owner", Str(LongText))>>}

InitDisplay ==
    /\ \E k \in 0..MaxRows : records \in [1..k -> DisplayRows]
    /\ table_name = "task"
    /\ Imported(DefaultConfig)
    /\ query = <<>>
    /\ attrs = Response(0, <<>>)
    /\ step = "input"
    /\ out = None

SpecDisplay == InitDisplay /\ [][SummarizeGenericRecords]_vars

\* s begins with p
StartsWith(p, s) == Len(s) >= Len(p) /\ SubSeq(s, 1, Len(p)) = p

\* the field k of the row holds a non-empty value
NonEmpty(rec, k) ==
    \E i \in 1..Len(rec) :
        /\ rec[i].k = k
        /\ \/ rec[i].v.kind = "str" /\ rec[i].v.s # ""
           \/ rec[i].v.kind = "num" /\ rec[i].v.n # 0

\* the positions of the row's string values of 1 to 60 characters
ShortStrings(rec) ==
    { i \in 1..Len(rec) :
        rec[i].v.kind = "str" /\ Len(rec[i].v.s) \in 1..60 }

\* d is the text the row is to be shown with
Shows(rec, d) ==
    \/ \E i \in 1..Len(key_fields) :
          /\ NonEmpty(rec, key_fields[i])
          /\ \A j \in 1..(i - 1) : ~NonEmpty(rec, key_fields[j])
          /\ d = StrOf(Get(rec, key_fields[i]))
    \/ /\ \A i \in 1..Len(key_fields) : ~NonEmpty(rec, key_fields[i])
       /\ \/ /\ ShortStrings(rec) = {}
             /\ d = "Record"
          \/ /\ Cardinality(ShortStrings(rec)) = 1
             /\ d = rec[Min(ShortStrings(rec))].v.s
          \/ /\ Cardinality(ShortStrings(rec)) >= 2
             /\ d = rec[Min(ShortStrings(rec))].v.s \o " - "
                    \o rec[Min(ShortStrings(rec)
                               \ {Min(ShortStrings(rec))})].v.s

\* C26: for n >= 1 rows the generic digest is one header line reporting n
\* records followed by exactly min(5, n) row lines in row order; the line of
\* a row shows the value of the first field of the priority list that the
\* row holds with a non-empty value, otherwise its first two string values
\* of 1 to 60 characters joined, otherwise "Record".
C26_DigestLayout ==
    (step = "_summarize_generic_records" /\ records # <<>>) =>
        /\ Len(out) = 1 + (IF Len(records) < 5 THEN Len(records) ELSE 5)
        /\ StartsWith("[" \o table_name \o "] " \o ToString(Len(records))
                      \o " record(s)", out[1])
        /\ \A i \in 2..Len(out) :
              \E d \in {Display(records[i - 1])} :
                  /\ Shows(records[i - 1], d)
                  /\ StartsWith("  - " \o d, out[i])

\* six rows, five listed: a later key field, two of three short strings, the
\* placeholder, one short string, and a name
C26_Witness ==
    /\ step = "_summarize_generic_records"
    /\ Len(records) = 6
    /\ Len(out) = 6
    /\ out[1] = "[task] 6 record(s) | totals -> revenue: 1,005.00"
    /\ out[2] = "  - Report"
    /\ out[3] = "  - Kim - Oslo (2024-05-01)"
    /\ out[4] = "  - Record"
    /\ out[5] = "  - Oslo"
    /\ out[6] = "  - Acme"


-----------------------------------------------------------------------------
(* Concurrent resolution of one uncached table.  Each caller runs          *)
(* _get_entity_set_name("task") in its own thread; a step of a caller runs *)
(* from one point where the thread can be suspended (the start of the call *)
(* or a request waiting for its answer) to the next.  Here pc and result   *)
(* map each caller to its position and to the name it returned, and hist   *)
(* is the sequence of the values assigned to _entity_set_name_cache[key].  *)

MaxCallers == 3

Callers == 1..MaxCallers

RaceTable == "task"

InitRace ==
    /\ config = DefaultConfig
    /\ _credential = None
    /\ _dataverse_token = "token"
    /\ _entity_set_name_cache = [k \in TableKeys |-> None]
    /\ pc = [c \in Callers |-> "start"]
    /\ result = [c \in Callers |-> None]
    /\ hist = <<>>
    /\ calls = 0
    /\ max_results = 0
    /\ table_names = <<>>
    /\ explicit_table = None
    /\ search_term = <<>>
    /\ idx = 0
    /\ context_parts = <<>>
    /\ requests = <<>>
    /\ query = <<>>
    /\ attrs = Response(0, <<>>)
    /\ records = <<>>
    /\ table_name = RaceTable
    /\ step = "input"
    /\ out = None

\* key = table_name.lower(); if key in _entity_set_name_cache: return it;
\* otherwise the exact lookup is sent
CacheLookup(c) ==
    /\ pc[c] = "start"
    /\ IF _entity_set_name_cache[LowerName(table_name)] # None
       THEN /\ pc' = [pc EXCEPT ![c] = "done"]
            /\ result' = [result EXCEPT
                             ![c] = _entity_set_name_cache[LowerName(table_name)]]
            /\ UNCHANGED requests
       ELSE /\ pc' = [pc EXCEPT ![c] = "exact"]
            /\ requests' = Append(requests,
                  Request("entity_exact", table_name, "EntityDefinitions", ""))
            /\ UNCHANGED result
    /\ UNCHANGED <<query, purevars, procvars, calls, max_results, table_names,
                   explicit_table, search_term, idx, context_parts, hist>>

\* the exact lookup is answered: its entity set is stored and returned, or
\* the contains search is sent
ExactLookup(c) ==
    /\ pc[c] = "exact"
    /\ \E resp \in ExactAnswers(table_name) :
          IF resp.status = 200 /\ resp.value.EntitySetName # ""
          THEN /\ _entity_set_name_cache' =
                     [_entity_set_name_cache EXCEPT
                         ![LowerName(table_name)] = resp.value.EntitySetName]
               /\ hist' = Append(hist, resp.value.EntitySetName)
               /\ result' = [result EXCEPT ![c] = resp.value.EntitySetName]
               /\ pc' = [pc EXCEPT ![c] = "done"]
               /\ UNCHANGED requests
          ELSE /\ pc' = [pc EXCEPT ![c] = "search"]
               /\ requests' = Append(requests,
                     Request("entity_search", table_name, "EntityDefinitions", ""))
               /\ UNCHANGED <<_entity_set_name_cache, hist, result>>
    /\ UNCHANGED <<query, purevars, config, _credential, _dataverse_token,
                   calls, max_results, table_names, explicit_table, search_term,
                   idx, context_parts>>

\* the contains search is answered: the entity set of its first matching
\* entity is stored and returned, or None is returned
ContainsSearch(c) ==
    /\ pc[c] = "search"
    /\ \E resp \in SearchAnswers(table_name) :
          \E hit \in { FirstMatchingEntity(resp.value, LowerName(table_name)) } :
              IF resp.status = 200 /\ hit # 0
              THEN /\ _entity_set_name_cache' =
                         [_entity_set_name_cache EXCEPT
                             ![LowerName(table_name)] =
                                 resp.value[hit].EntitySetName]
                   /\ hist' = Append(hist, resp.value[hit].EntitySetName)
                   /\ result' = [result EXCEPT
                                    ![c] = resp.value[hit].EntitySetName]
              ELSE UNCHANGED <<_entity_set_name_cache, hist, result>>
    /\ pc' = [pc EXCEPT ![c] = "done"]
    /\ UNCHANGED <<query, purevars, config, _credential, _dataverse_token,
                   calls, max_results, table_names, explicit_table, search_term,
                   idx, context_parts, requests>>

NextRace ==
    \E c \in Callers : CacheLookup(c) \/ ExactLookup(c) \/ ContainsSearch(c)

SpecRace == InitRace /\ [][NextRace]_vars

\* C27: concurrent resolution of one uncached table leaves the cache as if
\* by insert-if-absent: every value assigned to the table's key is the value
\* assigned first, and all callers that obtain a name obtain the same name.
C27_InsertIfAbsent ==
    /\ \A i \in 1..Len(hist) : hist[i] = hist[1]
    /\ \A c \in Callers, d \in Callers :
          (pc[c] = "done" /\ pc[d] = "done"
             /\ result[c] # None /\ result[d] # None) =>
                result[c] = result[d]


\* the first part that the listing of table i could have appended
ListingStart(i) == hist[i].from + (IF hist[i].agg THEN 1 ELSE 0)

\* C29: a table's contribution is all-or-nothing: when the listing of a
\* table ended in an exception caught by the per-table handler, the finished
\* call holds no part appended by that listing, so none of its lines is in
\* the returned context.
C29_FailedTableLeavesNothing ==
    pc = "done" =>
        \A i \in 1..Len(hist) :
            hist[i].raised =>
                /\ hist[i].to < ListingStart(i)
                /\ \A k \in ListingStart(i)..hist[i].to :
                      ~IsInfix(JoinParts(<<context_parts[k]>>), result)


-----------------------------------------------------------------------------
(* The tables a call searches: calls with and without a table list, on     *)
(* queries with and without an explicit table.  Each query identifies its  *)
(* call.                                                                   *)

SelectCalls ==
    { CallOf(<<"show", SP, "records", SP, "from", SP, "account">>, FALSE, <<>>),
      CallOf(<<"acme">>, FALSE, <<>>),
      CallOf(<<"Count", SP, "from", SP, "task">>, TRUE, <<"contact", "account">>),
      CallOf(<<>>, TRUE, <<"task">>) }

NextSelect ==
    \/ \E c \in SelectCalls : Call(c)
    \/ \E c \in SelectCalls : GetContext(c)
    \/ AggregatePhase
    \/ ListingPhase
    \/ Return

SpecSelect == Init /\ [][NextSelect]_vars

\* the call that is running or has returned
CurrentCall == CHOOSE c \in SelectCalls : c.q = query

\* the tables of the finished iterations, in order
TablesSearched == [i \in 1..Len(hist) |-> hist[i].table]

\* the tables of the requests sent, in order, without immediate repetitions
RECURSIVE TablesRequested(_)
TablesRequested(k) ==
    IF k = 0 THEN <<>>
    ELSE IF k > 1 /\ requests[k - 1].table = requests[k].table
    THEN TablesRequested(k - 1)
    ELSE Append(TablesRequested(k - 1), requests[k].table)

\* C30: a call without a table list on a query naming an explicit table
\* searches exactly that table; without a list and without an explicit table
\* it searches exactly the configured tables, each once and in configured
\* order; a list passed by the caller is searched as given whatever the
\* explicit table; and no request is sent for any other table.
C30_TablesSearched ==
    (pc = "done" /\ LoopEntered) =>
        /\ TablesSearched =
              IF CurrentCall.given THEN CurrentCall.tn
              ELSE IF _extract_table_name_from_query(query) # None
              THEN <<_extract_table_name_from_query(query)>>
              ELSE <<"account", "contact", "cr5cd_sales">>
        /\ TablesRequested(Len(requests)) = TablesSearched

\* get_context_from_dataverse("acme") has searched the three configured
\* tables, one after the other
C30_Witness ==
    /\ pc = "done"
    /\ LoopEntered
    /\ step = "get_context_from_dataverse"
    /\ query = <<"acme">>
    /\ TablesSearched = <<"account", "contact", "cr5cd_sales">>
    /\ TablesRequested(Len(requests)) = <<"account", "contact", "cr5cd_sales">>

\* a call with the list contact, account on a query naming task has
\* searched contact and account, and not task
ListUsedAsGiven ==
    /\ pc = "done"
    /\ LoopEntered
    /\ query = <<"Count", SP, "from", SP, "task">>
    /\ explicit_table = "task"
    /\ TablesRequested(Len(requests)) = <<"contact", "account">>

\* get_context_from_dataverse on a query naming account has searched account
ExplicitTableOnly ==
    /\ pc = "done"
    /\ LoopEntered
    /\ step = "get_context_from_dataverse"
    /\ explicit_table = "account"
    /\ TablesRequested(Len(requests)) = <<"account">>
=============================================================================
